---- MODULE Spec2Model ----
(***************************************************************************)
(* Model of the upmo knowledge chat (src/app/home/page.tsx and the API     *)
(* routes it calls): the Firestore collections and the blob store, the     *)
(* HomePage component state, its subscriptions and effects, and its async  *)
(* handlers, one action per await point.                                   *)
(*                                                                         *)
(* Conventions.  A document id, thread id, team id or storage path is a    *)
(* positive integer; 0 stands for null / "" / a missing field.  React      *)
(* commits a render and runs its effects before the next event is handled, *)
(* so a state update and the effects that depend on it are one step; a     *)
(* handler reads the state of the render it was started from (its          *)
(* closure), which the model stores in the handler's record.               *)
(***************************************************************************)
EXTENDS Integers, Sequences, FiniteSets, TLC

\* ------------------------------------------------------------------ bounds
NumTeams == 1       \* teams that can appear in the user's team list
MaxChats == 3       \* thread ids addDoc can hand out
MaxDocs == 4        \* source ids / storage paths that can be handed out
MaxWrites == 1      \* write actions (ask, upload, paste, URL add) started
MaxFiles == 1       \* files picked in one upload
MaxAsks == 3        \* questions of the user who submits them back to back

Null == 0
TeamIds == 1..NumTeams
ChatIds == 1..MaxChats
DocIds == 1..MaxDocs

\* ------------------------------------------------------- inputs (fixtures)
\* What the user can ingest: a PDF file, a pasted text and a web page.  text
\* is the normalized text as a sequence of words; summary and plans are what
\* the analysis step returns for it.
PlanBasic == [name |-> "Basic", priceMonthlyYen |-> 1000, note |-> ""]
\* The inputs the user ingests.  text is what extraction yields; form,
\* summary and plans are what the hosted model answers for it (a JSON
\* object); head and mentions are what fallbackAnalyze finds in it (its
\* first 180 characters, the matches of its plan regex); fault is why
\* validation or extraction throws, if it does.
Catalog ==
    << [name |-> "a.pdf", text |-> <<"basic", "support">>,
        form |-> "json", summary |-> "sum-a", plans |-> <<PlanBasic>>,
        head |-> "head-a", mentions |-> << >>, fault |-> "none"],
       [name |-> "memo.txt", text |-> <<"memo">>,
        form |-> "json", summary |-> "", plans |-> << >>,
        head |-> "head-m", mentions |-> << >>, fault |-> "none"],
       [name |-> "example.com", text |-> <<"pricing", "3000yen/month">>,
        form |-> "json", summary |-> "sum-u", plans |-> << >>,
        head |-> "head-u", mentions |-> <<[name |-> "Basic", price |-> 1000]>>, fault |-> "none"],
       \* a scanned PDF: it parses, and has no text layer
       [name |-> "scan.pdf", text |-> << >>,
        form |-> "json", summary |-> "", plans |-> << >>,
        head |-> "", mentions |-> << >>, fault |-> "none"],
       [name |-> "photo.png", text |-> << >>,
        form |-> "json", summary |-> "", plans |-> << >>,
        head |-> "", mentions |-> << >>, fault |-> "wrong-type"],
       [name |-> "broken.pdf", text |-> << >>,
        form |-> "json", summary |-> "", plans |-> << >>,
        head |-> "", mentions |-> << >>, fault |-> "unparseable"],
       \* a pasted text whose body is blank
       [name |-> "blank.txt", text |-> << >>,
        form |-> "json", summary |-> "", plans |-> << >>,
        head |-> "", mentions |-> << >>, fault |-> "empty-body"],
       [name |-> "10.0.0.5", text |-> << >>,
        form |-> "json", summary |-> "", plans |-> << >>,
        head |-> "", mentions |-> << >>, fault |-> "host-not-allowed"] >>
PdfInputs == {1, 4, 5, 6}
TextInputs == {2, 7}
UrlInputs == {3, 8}
\* The faults a handler finds by itself, before its first await after
\* ensureActiveChatId (page.tsx:772-785, 862), and those its extraction
\* call throws on (page.tsx:787-790, 919-923).
SyncFaults == {"wrong-type", "empty-body"}
ExtractionFaults == {"unparseable", "host-not-allowed"}
\* The non-empty file lists one upload can carry.
FileLists == UNION { [1..k -> PdfInputs] : k \in 1..MaxFiles }

\* The questions the user can type (trimmed, non-empty), as their tokens.
Questions == { <<"support">>, <<"plan">> }

\* ----------------------------------------------------------- small helpers
Max(a, b) == IF a >= b THEN a ELSE b
Min(a, b) == IF a <= b THEN a ELSE b
Range(s) == { s[i] : i \in DOMAIN s }

RECURSIVE SetToDescSeq(_)
\* A set of records with an id field as the list a createdAt-descending query
\* returns: ids are handed out in creation order, so newest first is id
\* descending.
SetToDescSeq(S) ==
    IF S = {} THEN << >>
    ELSE LET m == CHOOSE x \in S : \A y \in S : y.id <= x.id
         IN  <<m>> \o SetToDescSeq(S \ {m})

RECURSIVE Dedup(_)
\* Array.from(new Map(entries).values()) / Array.from(new Set(xs)): the first
\* position of each key is kept.  (For the Map the value kept is the last
\* one written; entries with the same key are equal here.)
Dedup(s) ==
    IF s = << >> THEN << >>
    ELSE LET r == Dedup(SubSeq(s, 1, Len(s) - 1))
         IN  IF s[Len(s)] \in Range(r) THEN r ELSE Append(r, s[Len(s)])

RECURSIVE FlatMap(_, _)
FlatMap(Op(_), s) ==
    IF s = << >> THEN << >> ELSE Op(Head(s)) \o FlatMap(Op, Tail(s))

\* ------------------------------------------------------------ answer engine
\* A message text: which template produced it (kind), the source name it
\* quotes, the words it quotes and the plan lines it lists.
Text(kind, name, words, plans) ==
    [kind |-> kind, name |-> name, words |-> words, plans |-> plans]

UploadFirstText == Text("upload-first", "", << >>, << >>)
NoUsableText == Text("no-usable-text", "", << >>, << >>)
AskFailedText == Text("ask-failed", "", << >>, << >>)
QuestionText(q) == Text("question", "", q, << >>)

\* The words of /.../.test(question) at page.tsx:160 (romanized).
PriceIntentWords == {"ryokin", "kakaku", "hiyo", "plan", "getsugaku", "nedan"}
\* Words of a text that match the price regex of extractPriceLines.
PriceShapedWords == {"3000yen/month", "5000yen/month"}

\* text.indexOf(token), 0-based, -1 when absent.
IndexOf(text, token) ==
    IF \E i \in DOMAIN text : text[i] = token
    THEN (CHOOSE i \in DOMAIN text :
             text[i] = token /\ \A j \in DOMAIN text : text[j] = token => i <= j) - 1
    ELSE -1

\* s.slice(start, end)
Slice(s, start, end) ==
    LET a == Max(0, Min(start, Len(s)))
        b == Max(a, Min(end, Len(s)))
    IN  SubSeq(s, a + 1, b)

\* The positions of a list of Map keys at which a key occurs first, in
\* order: the entries a Map built from them holds.
FirstIndices(keys) ==
    SelectSeq([i \in DOMAIN keys |-> i],
              LAMBDA i : \A j \in 1..(i - 1) : keys[j] # keys[i])

\* The last position at which the key of position i occurs.
LastIndex(keys, i) ==
    CHOOSE j \in DOMAIN keys :
        keys[j] = keys[i] /\ \A k \in DOMAIN keys : keys[k] = keys[i] => k <= j

\* Array.from(new Map(plans.map((plan) => [key, plan])).values())
\* (page.tsx:167-174): one entry per key `${name}-${priceMonthlyYen ??
\* "null"}`, at the position of the key's first plan and holding its last.
DedupPlans(plans) ==
    LET keys == [i \in DOMAIN plans |->
                    <<plans[i].name, plans[i].priceMonthlyYen>>]
        first == FirstIndices(keys)
    IN  [k \in DOMAIN first |-> plans[LastIndex(keys, first[k])]]

extractPriceLines(text) ==
    LET priceLike == SelectSeq(text, LAMBDA w : w \in PriceShapedWords)
    IN  Slice(Dedup(priceLike), 0, 5)

SnippetBefore == 80
SnippetAfter == 220

\* Faulty variant: a later source with the same score takes the lead.
TakesLeadMutant(score, bestScore) == score >= bestScore

\* if (score > bestScore) (page.tsx:209).
TakesLead(score, bestScore) == score > bestScore

\* One iteration of the for loop at page.tsx:195-220; best is
\* [source (0 before any), score, snippet].
ScoreStep(best, source, k, tokens) ==
    LET hits == SelectSeq(tokens, LAMBDA t : IndexOf(source.text, t) >= 0)
        score == Len(hits)
        firstHitIndex ==
            IF score = 0 THEN -1
            ELSE CHOOSE i \in { IndexOf(source.text, t) : t \in Range(hits) } :
                     \A t \in Range(hits) : i <= IndexOf(source.text, t)
        snippet ==
            IF firstHitIndex >= 0
            THEN Slice(source.text, Max(0, firstHitIndex - SnippetBefore),
                       Min(Len(source.text), firstHitIndex + SnippetAfter))
            ELSE Slice(source.text, 0, SnippetAfter)
    IN  IF source.text = << >> THEN best
        ELSE IF TakesLead(score, best.score)
             THEN [source |-> k, score |-> score, snippet |-> snippet]
             ELSE best

RECURSIVE BestSource(_, _, _, _)
BestSource(best, sources, k, tokens) ==
    IF k > Len(sources) THEN best
    ELSE BestSource(ScoreStep(best, sources[k], k, tokens), sources, k + 1, tokens)

\* Faulty variant: the stored plans are passed over.
UsesStoredPlansMutant(structuredPlans) == FALSE

\* if (structuredPlans.length > 0) (page.tsx:166).
UsesStoredPlans(structuredPlans) == Len(structuredPlans) > 0

\* Faulty variant: the price block is returned whatever the scan found.
UsesTextPricesMutant(prices) == TRUE

\* if (prices.length > 0) (page.tsx:186).
UsesTextPrices(prices) == Len(prices) > 0

\* Faulty variant: a summary is preferred whatever the score.
PrefersSummaryMutant(summary, bestScore) == summary # ""

\* if (bestSource.summary && bestScore <= 0) (page.tsx:224).
PrefersSummary(summary, bestScore) == summary # "" /\ bestScore <= 0

buildAssistantReply(question, sources) ==
    LET tokens == question
        isPriceQuestion == \E w \in Range(question) : w \in PriceIntentWords
        structuredPlans ==
            SelectSeq(FlatMap(LAMBDA s : s.pricingPlans, sources),
                      LAMBDA plan : plan.name # "")
        prices == FlatMap(LAMBDA s : extractPriceLines(s.text), sources)
        best == BestSource([source |-> 0, score |-> -1, snippet |-> << >>],
                           sources, 1, tokens)
    IN  IF Len(sources) = 0 THEN UploadFirstText
        ELSE IF isPriceQuestion /\ UsesStoredPlans(structuredPlans)
             THEN Text("price", "", << >>, DedupPlans(structuredPlans))
        ELSE IF isPriceQuestion /\ UsesTextPrices(prices)
             THEN Text("price", "", prices, << >>)
        ELSE IF best.source = 0 THEN NoUsableText
        ELSE IF PrefersSummary(sources[best.source].summary, best.score)
             THEN Text("summary", sources[best.source].name,
                       <<sources[best.source].summary>>, << >>)
        ELSE Text("snippet", sources[best.source].name, best.snippet, << >>)

\* ------------------------------------------------------------- chat route
\* What can happen to one POST /api/chat (environment).
ChatOutcomes ==
    { "unreachable",      \* the browser's fetch rejects
      "no-credential",    \* OPENAI_API_KEY is not set
      "upstream-throws",  \* the route's fetch to the model rejects
      "upstream-non2xx",  \* the model answers with an error status
      "unparseable",      \* response.json() throws
      "empty-answer",     \* the model returns no text
      "platform-error",   \* the host answers for the route with a 5xx
      "garbled-response", \* the route's response body is not JSON
      "answer" }          \* the model returns text
RemoteFailures == ChatOutcomes \ {"answer"}

NoCredentialText == Text("route-no-credential", "", << >>, << >>)
RouteFailedText == Text("route-failed", "", << >>, << >>)
RouteNoAnswerText == Text("route-no-answer", "", << >>, << >>)
ModelAnswerText == Text("model-answer", "", << >>, << >>)
EmptyText == Text("", "", << >>, << >>)

\* POST of the chat route: the HTTP status and the answer field it returns.
\* (question is non-empty: handleAsk trims and tests it before the call.)
ChatRoutePOST(outcome) ==
    CASE outcome = "no-credential" -> [status |-> 200, answer |-> NoCredentialText]
      [] outcome = "upstream-throws" -> [status |-> 200, answer |-> RouteFailedText]
      [] outcome = "upstream-non2xx" -> [status |-> 200, answer |-> RouteFailedText]
      [] outcome = "unparseable" -> [status |-> 200, answer |-> RouteFailedText]
      [] outcome = "empty-answer" -> [status |-> 200, answer |-> RouteNoAnswerText]
      [] OTHER -> [status |-> 200, answer |-> ModelAnswerText]

\* generateAiReply: the trimmed answer, or EmptyText for a thrown error (the
\* caller's catch leaves assistantReply "").
generateAiReply(outcome) ==
    IF outcome \in {"unreachable", "garbled-response"} THEN EmptyText
    ELSE LET response == IF outcome = "platform-error"
                         THEN [status |-> 504, answer |-> EmptyText]
                         ELSE ChatRoutePOST(outcome)
         IN  IF response.status < 200 \/ response.status > 299 THEN EmptyText
             ELSE response.answer

\* Faulty variant: no local fallback when the chat call yields nothing.
AssistantReplyMutant(outcome, question, targetSources) ==
    generateAiReply(outcome)

\* Lines 982-994 of handleAsk: the reply that gets stored.
AssistantReply(outcome, question, targetSources) ==
    LET assistantReply == generateAiReply(outcome)
    IN  IF assistantReply = EmptyText
        THEN buildAssistantReply(question, targetSources)
        ELSE assistantReply

\* ------------------------------------------------------------------- state
\* ----------------------------------------------------- the analysis service
\* What can happen to one call of /api/pdf-analyze: the hosted model
\* answers; the route has no credential; the hosted model answers non-2xx;
\* its answer cannot be parsed; the route's handler throws; the route
\* cannot be reached (fetch rejects, or the platform answers non-2xx).
AnalyzeOutcomes ==
    {"answer", "no-credential", "remote-error", "unparseable", "throws",
     "unreachable"}
SummarySentinel == "no-summary"
NoAnalysis == [ok |-> FALSE, summary |-> "", plans |-> << >>]

\* A priceMonthlyYen that is null or missing, and one the hosted model sent
\* that is not a number (a string, say); a number is a price in yen.
NoPrice == -1
NotANumber == -2
\* name || "プラン" (route.ts:38), romanized.
DefaultPlanName == "puran"
\* slice(0, 8) (route.ts:48).
MaxPlans == 8

\* String(value ?? "").trim() on the names and notes that occur.
Trim(value) ==
    CASE value = " Basic" -> "Basic"
      [] value = " " -> ""
      [] OTHER -> value

\* The map and filter of parsePricingPlans (page.tsx:243-256) and of
\* safeParseAnalyze (route.ts:59-66), which are the same.
parsePricingPlans(value) ==
    SelectSeq([i \in DOMAIN value |->
                  [name |-> Trim(value[i].name),
                   priceMonthlyYen |->
                       IF value[i].priceMonthlyYen >= 0
                       THEN value[i].priceMonthlyYen ELSE NoPrice,
                   note |-> Trim(value[i].note)]],
              LAMBDA plan : plan.name # "")

\* fallbackAnalyze (pdf-analyze/route.ts:25-50) on a text: input.mentions
\* are the matches of planRegex in it, name being match[1] trimmed and
\* collapsed and price match[2] as a number.  The Map key is
\* `${name}-${priceMonthlyYen}`, which is one-to-one on these names (no
\* hyphen in them) and prices.
fallbackAnalyze(input) ==
    LET keys == [i \in DOMAIN input.mentions |->
                    <<input.mentions[i].name, input.mentions[i].price>>]
        first == FirstIndices(keys)
        plansMap == [k \in DOMAIN first |->
                        [name |-> IF input.mentions[first[k]].name = ""
                                  THEN DefaultPlanName
                                  ELSE input.mentions[first[k]].name,
                         priceMonthlyYen |-> input.mentions[first[k]].price,
                         note |-> ""]]
    IN  [summary |-> IF input.text = << >> THEN SummarySentinel
                     ELSE input.head,
         plans |-> SubSeq(plansMap, 1, Min(Len(plansMap), MaxPlans))]

\* safeParseAnalyze (route.ts:52-75) on a text of the hosted model: an
\* object of the right shape ("json") parses; the same object with prose
\* around it ("wrapped") and an object without a summary string or a plans
\* array ("wrong-shape") yield null.
safeParseAnalyze(raw) ==
    IF raw.form = "json"
    THEN [parsed |-> TRUE, summary |-> Trim(raw.summary),
          plans |-> parsePricingPlans(raw.plans)]
    ELSE [parsed |-> FALSE, summary |-> "", plans |-> << >>]

\* outputText.match(/\{[\s\S]*\}/)?.[0] (route.ts:135): the object without
\* the prose around it.
JsonLike(raw) ==
    IF raw.form = "wrapped" THEN [raw EXCEPT !.form = "json"] ELSE raw

\* POST of the analysis route (pdf-analyze/route.ts:77-149) for an input:
\* its text, and the hosted model's answer for it.
AnalyzeRoutePOST(input, outcome) ==
    LET direct == safeParseAnalyze(input)
        recovered == safeParseAnalyze(JsonLike(input))
        fallback == fallbackAnalyze(input)
    IN  IF input.text = << >>
        THEN [status |-> 400, summary |-> "", plans |-> << >>]
        ELSE IF outcome \in {"no-credential", "remote-error", "unparseable"}
        THEN [status |-> 200, summary |-> fallback.summary,
              plans |-> fallback.plans]
        ELSE IF outcome = "throws"
        THEN [status |-> 200, summary |-> SummarySentinel, plans |-> << >>]
        ELSE IF direct.parsed
        THEN [status |-> 200, summary |-> direct.summary,
              plans |-> direct.plans]
        ELSE IF recovered.parsed
        THEN [status |-> 200, summary |-> recovered.summary,
              plans |-> recovered.plans]
        ELSE [status |-> 200, summary |-> fallback.summary,
              plans |-> fallback.plans]

\* analyzePdfText (page.tsx:283-302): ok = FALSE when it throws.
analyzePdfText(input, outcome) ==
    LET response == AnalyzeRoutePOST(input, outcome)
    IN  IF outcome = "unreachable" \/ response.status # 200 THEN NoAnalysis
        ELSE [ok |-> TRUE, summary |-> Trim(response.summary),
              plans |-> parsePricingPlans(response.plans)]

VARIABLES
    \* Firestore and the blob store
    chats,          \* users/{uid}/chats, most recently updated first
    documents,      \* the Source records; coll = 0 is users/{uid}/documents,
                    \* coll = c is users/{uid}/chats/c/documents
    messages,       \* users/{uid}/chats/c/messages, in creation order
    storage,        \* the storage paths that hold a blob
    nextDoc,        \* the next source id addDoc hands out
    nextPath,       \* the next fresh storage path
    \* HomePage state (useState)
    authUser, teams, activeChat, selectedChatId, chatThreads,
    globalSources, sources, selectedKnowledge,
    messageList,    \* the page's messages state (page.tsx:383)
    \* the onSnapshot listeners the effects hold
    chatsSub,       \* the scope of the chats query, in a sequence; << >> is none
    sourcesSub,     \* the team thread whose documents are listened to, or Null
    messagesSub,    \* the thread whose messages are listened to, or Null
    sending, creatingChat, showTeamChatModal, inheritSourceIds,
    \* handlers in flight
    writers,        \* the write actions: ask, upload, paste, URL add, new chat
    teamCreate,     \* createTeamChatWithInheritance
    deleting,       \* handleDeleteSource
    started,        \* write actions started so far
    \* HomePage state (useState): the progress indicators
    uploading, uploadStatus, urlSubmitting, deletingSourceId,
    \* the user
    declined,       \* flips with every confirm dialog the user declines
    budget,         \* the write actions the user starts at most
    \* the server side, each on its own
    call,           \* one application of a pure function: what it is applied
                    \* to and what it returned
    urlExtract,     \* the request the URL extraction route is handling
    organizations,  \* the organizations collection (bootstrap utility)
    members,        \* organizations/{orgId}/members
    bootstrap,      \* the runs of the bootstrap utility
    companies,      \* the companies collection (signup page)
    profiles,       \* the users/{uid} profile documents
    signups         \* the submits of the signup form

db == <<chats, documents, messages, storage, nextDoc, nextPath>>
page == <<authUser, teams, activeChat, selectedChatId, chatThreads,
          globalSources, sources, selectedKnowledge, messageList, chatsSub,
          sourcesSub, messagesSub>>
flags == <<sending, creatingChat, showTeamChatModal, inheritSourceIds>>
procs == <<writers, teamCreate, deleting, started>>
busy == <<uploading, uploadStatus, urlSubmitting, deletingSourceId>>
user == <<declined, budget>>
signup == <<companies, profiles, signups>>
services == <<call, urlExtract, organizations, members, bootstrap, signup>>
vars == <<db, page, flags, procs, busy, user, services>>

Personal == [type |-> "personal", teamId |-> Null]
Team(t) == [type |-> "team", teamId |-> t]

\* A Source as the client holds it (SourceItem): the record without the
\* collection it was read from.
Item(d) ==
    [id |-> d.id, name |-> d.name, text |-> d.text, summary |-> d.summary,
     pricingPlans |-> d.pricingPlans, storagePath |-> d.storagePath,
     inheritedFromDocumentId |-> d.inheritedFromDocumentId]

\* The documents of one collection as a snapshot delivers them.
CollectionItems(coll) == { Item(d) : d \in { x \in documents : x.coll = coll } }

\* The threads the chats query of the active scope returns, sorted as the
\* snapshot callback sorts them.
ChatsQuery(ac) ==
    LET match(c) == IF ac.type = "team"
                    THEN c.scopeType = "team" /\ c.teamId = ac.teamId
                    ELSE c.scopeType = "personal"
        hit == SelectSeq(chats, match)
    IN  [i \in DOMAIN hit |-> hit[i].id]

\* ----------------------------------------------------------------- effects
\* Faulty variant: the effect does nothing.
TeamExistenceEffectMutant(ac, tms) == ac

\* The team-existence effect, page.tsx:618-624.
TeamExistenceEffect(ac, tms) ==
    IF ac.type # "team" THEN ac
    ELSE IF ac.teamId \in tms THEN ac ELSE Personal

\* The sources effect, page.tsx:458-493; cur is the list before the effect
\* (a new team subscription has delivered nothing yet).
SourcesEffect(auth, ac, sel, gs, cur) ==
    IF ~auth THEN {}
    ELSE IF ac.type = "team" THEN (IF sel = Null THEN {} ELSE cur)
    ELSE gs

\* The pinned-source effect, page.tsx:642-648.
KnowledgeEffect(sk, srcs) ==
    IF sk = Null THEN sk
    ELSE IF \E x \in srcs : x.id = sk THEN sk ELSE Null

\* Faulty variant: the chats listener is set up once, for the personal
\* scope, and kept.
ChatsSubEffectMutant(auth, ac) == IF auth THEN <<Personal>> ELSE << >>

\* The listener the chats effect holds after its cleanup and body have run
\* (page.tsx:555-599): that of the active scope's query.
ChatsSubEffect(auth, ac) == IF auth THEN <<ac>> ELSE << >>

\* The listener the sources effect holds (page.tsx:458-493): that of the
\* selected team thread's documents, none outside team scope.
SourcesSubEffect(auth, ac, sel) ==
    IF auth /\ ac.type = "team" /\ sel # Null THEN sel ELSE Null

\* The listener the messages effect holds (page.tsx:650-671): that of the
\* selected thread's messages.
MessagesSubEffect(auth, sel) == IF auth /\ sel # Null THEN sel ELSE Null

\* One committed render with its effects: the new page state from the values
\* the handler set.
Render(auth, tms, ac, sel, threads, gs, srcs, sk) ==
    LET tms2 == IF auth THEN tms ELSE {}
        ac2 == TeamExistenceEffect(ac, tms2)
        sel2 == IF auth THEN sel ELSE Null
        gs2 == IF auth THEN gs ELSE {}
        srcs2 == SourcesEffect(auth, ac2, sel2, gs2, srcs)
    IN  /\ authUser' = auth
        /\ teams' = tms2
        /\ activeChat' = ac2
        /\ selectedChatId' = sel2
        /\ chatThreads' = IF auth THEN threads ELSE << >>
        /\ globalSources' = gs2
        /\ sources' = srcs2
        /\ selectedKnowledge' = KnowledgeEffect(sk, srcs2)
        /\ chatsSub' = ChatsSubEffect(auth, ac2)
        /\ sourcesSub' = SourcesSubEffect(auth, ac2, sel2)
        /\ messagesSub' = MessagesSubEffect(auth, sel2)
        /\ messageList' = IF MessagesSubEffect(auth, sel2) = Null THEN << >>
                          ELSE messageList

\* A render in which only the selected thread id was set.
SetSelectedChatId(id) ==
    Render(authUser, teams, activeChat, id, chatThreads, globalSources,
           sources, selectedKnowledge)

\* ----------------------------------------------------------------- initial
IdleWriter ==
    [kind |-> "idle", pc |-> "idle", n |-> 0, activeChat |-> Personal,
     startSel |-> Null,
     activeId |-> Null, created |-> Null, files |-> << >>, question |-> << >>,
     targetSources |-> << >>, outcome |-> "", reply |-> EmptyText,
     storagePath |-> Null, analysis |-> NoAnalysis, downloadURL |-> Null]
IdleTeamCreate ==
    [pc |-> "idle", teamId |-> Null, inheritTargets |-> << >>, k |-> 0,
     created |-> Null]
IdleDeleting ==
    [pc |-> "idle", source |-> << >>, activeChat |-> Personal,
     selectedChatId |-> Null, selectedKnowledge |-> Null]

Slots == 1..Max(MaxWrites, MaxAsks)

\* buildPdfSummaryMessage (page.tsx:266-281).
buildPdfSummaryMessage(name, summary, plans) ==
    Text("uploaded", name, <<summary>>, plans)

\* What earlier sessions of the same user can have left in the store: a
\* personal thread (1) and a thread of team 1 (2); an uploaded file in the
\* personal collection; and either a text pasted in personal scope or a file
\* uploaded into the team thread.  Each Source has its summary message.
EarlierThread == [id |-> 1, scopeType |-> "personal", teamId |-> Null]
EarlierTeamThread == [id |-> 2, scopeType |-> "team", teamId |-> 1]
EarlierUpload ==
    [id |-> 1, coll |-> Null, name |-> Catalog[1].name, text |-> Catalog[1].text,
     summary |-> Catalog[1].summary, pricingPlans |-> Catalog[1].plans,
     storagePath |-> 1, inheritedFromDocumentId |-> Null]
EarlierPaste ==
    [id |-> 2, coll |-> Null, name |-> Catalog[2].name, text |-> Catalog[2].text,
     summary |-> Catalog[2].summary, pricingPlans |-> Catalog[2].plans,
     storagePath |-> Null, inheritedFromDocumentId |-> Null]
EarlierTeamUpload ==
    [id |-> 2, coll |-> 2, name |-> Catalog[1].name, text |-> Catalog[1].text,
     summary |-> Catalog[1].summary, pricingPlans |-> Catalog[1].plans,
     storagePath |-> 2, inheritedFromDocumentId |-> Null]
EarlierMessage(f) ==
    [sender |-> "assistant", by |-> 0,
     text |-> buildPdfSummaryMessage(Catalog[f].name, Catalog[f].summary,
                                     Catalog[f].plans)]

\* No function is being applied, no request is being handled and the
\* bootstrap utility has not run.
NoCall == [fn |-> "none"]
NoRequest == [pc |-> "idle"]
NoSignup ==
    /\ companies = {}
    /\ profiles = {}
    /\ signups = << >>
ServicesIdle ==
    /\ call = NoCall
    /\ urlExtract = NoRequest
    /\ organizations = {}
    /\ members = {}
    /\ bootstrap = << >>
    /\ NoSignup

\* The page state when HomePage mounts for a signed-in user, and no handler
\* in flight.
PageOpens ==
    /\ authUser = TRUE
    /\ teams = {}
    /\ activeChat = Personal
    /\ selectedChatId = Null
    /\ chatThreads = << >>
    /\ globalSources = {}
    /\ sources = {}
    /\ selectedKnowledge = Null
    /\ messageList = << >>
    /\ chatsSub = <<Personal>>
    /\ sourcesSub = Null
    /\ messagesSub = Null
    /\ sending = FALSE
    /\ creatingChat = FALSE
    /\ showTeamChatModal = FALSE
    /\ inheritSourceIds = {}
    /\ writers = [s \in Slots |-> IdleWriter]
    /\ teamCreate = IdleTeamCreate
    /\ deleting = IdleDeleting
    /\ started = 0
    /\ uploading = FALSE
    /\ uploadStatus = << >>
    /\ urlSubmitting = FALSE
    /\ deletingSourceId = Null
    /\ declined = FALSE

\* Nothing stored yet.
EmptyStore ==
    /\ chats = << >>
    /\ documents = {}
    /\ messages = [c \in ChatIds |-> << >>]
    /\ storage = {}
    /\ nextDoc = 1
    /\ nextPath = 1

\* A new user.
InitFresh ==
    /\ EmptyStore
    /\ PageOpens
    /\ budget = MaxWrites
    /\ ServicesIdle

\* A new user who asks up to MaxAsks questions.
InitAsker ==
    /\ EmptyStore
    /\ PageOpens
    /\ budget = MaxAsks
    /\ ServicesIdle

\* A returning user whose second Source is the pasted text.
InitPasted ==
    /\ chats = <<EarlierTeamThread, EarlierThread>>
    /\ documents = {EarlierUpload, EarlierPaste}
    /\ messages = [c \in ChatIds |->
                      IF c = 1 THEN <<EarlierMessage(1), EarlierMessage(2)>>
                      ELSE << >>]
    /\ storage = {1}
    /\ nextDoc = 3
    /\ nextPath = 2
    /\ PageOpens
    /\ budget = MaxWrites
    /\ ServicesIdle

\* A returning user whose second Source is the file uploaded to the team
\* thread.
InitTeamUpload ==
    /\ chats = <<EarlierTeamThread, EarlierThread>>
    /\ documents = {EarlierUpload, EarlierTeamUpload}
    /\ messages = [c \in ChatIds |->
                      IF c \in {1, 2} THEN <<EarlierMessage(1)>> ELSE << >>]
    /\ storage = {1, 2}
    /\ nextDoc = 3
    /\ nextPath = 3
    /\ PageOpens
    /\ budget = MaxWrites
    /\ ServicesIdle

Init == InitFresh \/ InitPasted \/ InitTeamUpload

\* ----------------------------------------------------------- subscriptions
\* The teams subscription delivers the user's team list (page.tsx:535-550);
\* which teams list the user is the company's doing.
TeamsSnapshot ==
    \E next \in SUBSET TeamIds :
        /\ authUser
        /\ next # teams
        /\ Render(authUser, next, activeChat, selectedChatId, chatThreads,
                  globalSources, sources, selectedKnowledge)
        /\ UNCHANGED <<db, flags, procs, busy, user, services>>

\* The chats listener delivers the threads of its query (page.tsx:573-596).
\* Faulty variant: a delivery always selects the first thread of the list.
NextSelectedChatIdMutant(prev, next) == IF Len(next) > 0 THEN next[1] ELSE Null

\* The updater the snapshot callback passes to setSelectedChatId
\* (page.tsx:590-593); next holds the ids of the sorted list.
NextSelectedChatId(prev, next) ==
    IF prev # Null /\ prev \in Range(next) THEN prev
    ELSE IF Len(next) > 0 THEN next[1] ELSE Null

ChatsSnapshot ==
    LET next == ChatsQuery(chatsSub[1])
        prev == selectedChatId
        sel == NextSelectedChatId(prev, next)
    IN  /\ authUser
        /\ chatsSub # << >>
        /\ next # chatThreads \/ sel # prev
        /\ Render(authUser, teams, activeChat, sel, next, globalSources,
                  sources, selectedKnowledge)
        /\ UNCHANGED <<db, flags, procs, busy, user, services>>

\* The personal documents subscription delivers (page.tsx:441-453).
DocumentsSnapshot ==
    LET next == CollectionItems(Null)
    IN  /\ authUser
        /\ next # globalSources
        /\ Render(authUser, teams, activeChat, selectedChatId, chatThreads,
                  next, sources, selectedKnowledge)
        /\ UNCHANGED <<db, flags, procs, busy, user, services>>

\* The documents listener of a team thread delivers (page.tsx:475-487).
TeamDocumentsSnapshot ==
    LET next == CollectionItems(sourcesSub)
    IN  /\ authUser
        /\ sourcesSub # Null
        /\ next # sources
        /\ Render(authUser, teams, activeChat, selectedChatId, chatThreads,
                  globalSources, next, selectedKnowledge)
        /\ UNCHANGED <<db, flags, procs, busy, user, services>>

\* The messages listener of a thread delivers (page.tsx:659-669).
MessagesSnapshot ==
    /\ authUser
    /\ messagesSub # Null
    /\ messages[messagesSub] # messageList
    /\ messageList' = messages[messagesSub]
    /\ UNCHANGED <<authUser, teams, activeChat, selectedChatId, chatThreads,
                   globalSources, sources, selectedKnowledge, chatsSub,
                   sourcesSub, messagesSub>>
    /\ UNCHANGED <<db, flags, procs, busy, user, services>>

\* ------------------------------------------------------------ user: scope
\* Faulty variant: the button leaves the selected thread id alone.
ScopeButtonMutant(ac) ==
    Render(authUser, teams, ac, selectedChatId, chatThreads, globalSources,
           sources, selectedKnowledge)

\* The onClick of a scope button: setActiveChat(ac); setSelectedChatId(null)
\* (page.tsx:1190-1193 and 1245-1248).
ScopeButton(ac) ==
    Render(authUser, teams, ac, Null, chatThreads, globalSources, sources,
           selectedKnowledge)

\* The team button, page.tsx:1188-1193.
SelectTeam ==
    \E t \in teams :
        /\ authUser
        /\ ~showTeamChatModal
        /\ ScopeButton(Team(t))
        /\ UNCHANGED <<db, flags, procs, busy, user, services>>

\* The personal chat button, page.tsx:1243-1248.
SelectPersonal ==
    /\ authUser
    /\ ~showTeamChatModal
    /\ ScopeButton(Personal)
    /\ UNCHANGED <<db, flags, procs, busy, user, services>>

\* A thread button of the active scope's list, page.tsx:1208 and 1264.
SelectThread ==
    \E id \in Range(chatThreads) :
        /\ authUser
        /\ ~showTeamChatModal
        /\ SetSelectedChatId(id)
        /\ UNCHANGED <<db, flags, procs, busy, user, services>>

\* A source row of the uploaded list, page.tsx:1377-1382.
SelectKnowledge ==
    \E x \in sources :
        /\ authUser
        /\ ~showTeamChatModal
        /\ Render(authUser, teams, activeChat, selectedChatId, chatThreads,
                  globalSources, sources, x.id)
        /\ UNCHANGED <<db, flags, procs, busy, user, services>>

\* handleLogout, page.tsx:1047-1050: the auth listener delivers null.
handleLogout ==
    /\ authUser
    /\ Render(FALSE, teams, activeChat, selectedChatId, chatThreads,
              globalSources, sources, selectedKnowledge)
    /\ UNCHANGED <<db, flags, procs, busy, user, services>>

\* ----------------------------------------------------- database operations
\* addDoc into users/{uid}/chats: the fresh id, and the collection after it.
NewChatId == Len(chats) + 1
AddChat(scopeType, teamId) ==
    <<[id |-> NewChatId, scopeType |-> scopeType, teamId |-> teamId]>> \o chats

\* updateDoc(chat, {updatedAt: serverTimestamp()}): the thread becomes the
\* most recently updated one.
TouchChat(id) ==
    SelectSeq(chats, LAMBDA c : c.id = id) \o SelectSeq(chats, LAMBDA c : c.id # id)

AddMessage(c, sender, text, n) ==
    [messages EXCEPT ![c] = Append(@, [sender |-> sender, text |-> text, by |-> n])]

\* The Source record an ingestion of catalogue entry f writes.
NewDocument(coll, f, storagePath, analysis) ==
    [id |-> nextDoc, coll |-> coll, name |-> Catalog[f].name,
     text |-> Catalog[f].text, summary |-> analysis.summary,
     pricingPlans |-> analysis.plans, storagePath |-> storagePath,
     inheritedFromDocumentId |-> Null]

\* Faulty variant: the copy does not carry the storage path.
InheritedCopyMutant(coll, source) ==
    [id |-> nextDoc, coll |-> coll, name |-> source.name, text |-> source.text,
     summary |-> source.summary, pricingPlans |-> source.pricingPlans,
     storagePath |-> Null,
     inheritedFromDocumentId |-> source.id]

\* The copy createTeamChatWithInheritance writes for source (page.tsx:711-720).
InheritedCopy(coll, source) ==
    [id |-> nextDoc, coll |-> coll, name |-> source.name, text |-> source.text,
     summary |-> source.summary, pricingPlans |-> source.pricingPlans,
     storagePath |-> source.storagePath,
     inheritedFromDocumentId |-> source.id]

\* -------------------------------------------------------- model's budgets
\* Threads and sources that handlers in flight may still create: a handler
\* starts only if the ids it may need are left.
PendingChats ==
    Cardinality({ s \in Slots : writers[s].pc = "ensure" })
    + (IF teamCreate.pc = "create" THEN 1 ELSE 0)
RECURSIVE SumFiles(_)
SumFiles(S) ==
    IF S = {} THEN 0
    ELSE LET s == CHOOSE x \in S : TRUE
             written == IF writers[s].pc \in {"message", "update"} THEN 1 ELSE 0
         IN  Len(writers[s].files) - written + SumFiles(S \ {s})
PendingDocs ==
    SumFiles(Slots)
    + (IF teamCreate.pc = "idle" THEN 0
       ELSE Len(teamCreate.inheritTargets) - teamCreate.k)
ChatLeft == Len(chats) + PendingChats < MaxChats
DocsLeft(k) == (nextDoc - 1) + PendingDocs + k <= MaxDocs
FreeSlot(s) ==
    /\ s <= budget
    /\ writers[s].kind = "idle"
    /\ \A r \in Slots : r < s => writers[r].kind # "idle"

\* ------------------------------------------------- thread for a write action
\* createNewChatThread up to its addDoc (page.tsx:673-685); TRUE when the
\* call goes on to create a thread, FALSE when it returns null at once.
CreateStarts(ac) ==
    /\ authUser
    /\ ~(ac.type = "team" /\ ac.teamId \notin teams)

\* Faulty variant: a thread is created whether or not one is selected.
ensureActiveChatIdMutant(sel) == [create |-> TRUE, id |-> Null]

\* ensureActiveChatId (page.tsx:733-736) for the selected thread id sel of
\* the handler's render: the id it returns at once, or that it goes on to
\* createNewChatThread.
ensureActiveChatId(sel) ==
    IF sel # Null THEN [create |-> FALSE, id |-> sel]
    ELSE [create |-> TRUE, id |-> Null]

\* The ingestion handlers.
IngestKinds == {"upload", "text", "url"}
\* The position of a write action right after ensureActiveChatId returned.
FirstPc(kind) ==
    IF kind = "ask" THEN "user"
    ELSE IF kind = "text" THEN "analyze"
    ELSE IF kind = "newchat" THEN "idle" ELSE "extract"
\* The handler returns or throws before its first await after
\* ensureActiveChatId: a file of the wrong type (page.tsx:772-785), a blank
\* body (page.tsx:862).
AbortsAtOnce(w) ==
    w.kind \in IngestKinds /\ Catalog[Head(w.files)].fault \in SyncFaults
\* Of these, the throw is inside the try block, whose finally block runs;
\* the return on a blank body is before it.
ThrowsAtOnce(w) ==
    AbortsAtOnce(w) /\ Catalog[Head(w.files)].fault = "wrong-type"

\* The indicators as the handler sets them.
Busy(u, status, us) ==
    /\ uploading' = u
    /\ uploadStatus' = status
    /\ urlSubmitting' = us
    /\ UNCHANGED deletingSourceId
Status(fileName, progress) == <<[fileName |-> fileName, progress |-> progress]>>
\* The indicators after ensureActiveChatId returned an id (page.tsx:769,
\* 864-865, 915-917).
SetBusy(w) ==
    IF w.kind = "upload" THEN Busy(TRUE, uploadStatus, urlSubmitting)
    ELSE IF w.kind = "text"
    THEN Busy(TRUE, Status(Catalog[Head(w.files)].name, 100), urlSubmitting)
    ELSE IF w.kind = "url" THEN Busy(TRUE, Status("URL", 30), TRUE)
    ELSE UNCHANGED busy

\* Faulty variant: the indicators are left as they are.
FinallyIngestMutant(w) == UNCHANGED busy

\* The finally block of an ingestion handler (page.tsx:839-842, 900-903,
\* 958-962).
FinallyIngest(w) ==
    IF w.kind \in IngestKinds
    THEN Busy(FALSE, << >>, IF w.kind = "url" THEN FALSE ELSE urlSubmitting)
    ELSE UNCHANGED busy

\* A write action of the given kind starts in slot s: the guards, then
\* ensureActiveChatId.  w holds the fields of the kind.
StartWriter(s, w) ==
    LET ensured == ensureActiveChatId(selectedChatId)
    IN  /\ authUser
        /\ ~showTeamChatModal
        /\ FreeSlot(s)
        /\ started < budget
        /\ IF ~ensured.create
           THEN IF AbortsAtOnce(w)
                THEN /\ IF ThrowsAtOnce(w) THEN FinallyIngest(w)
                        ELSE UNCHANGED busy
                     /\ UNCHANGED <<writers, started, sending, creatingChat>>
                ELSE /\ writers' = [writers EXCEPT ![s] =
                            [w EXCEPT !.n = started + 1,
                                      !.activeChat = activeChat,
                                      !.startSel = selectedChatId,
                                      !.activeId = ensured.id]]
                     /\ started' = started + 1
                     /\ sending' = IF w.kind = "ask" THEN TRUE ELSE sending
                     /\ SetBusy(w)
                     /\ UNCHANGED creatingChat
           ELSE /\ CreateStarts(activeChat)
                /\ ChatLeft
                /\ writers' = [writers EXCEPT ![s] =
                       [w EXCEPT !.n = started + 1, !.activeChat = activeChat,
                                 !.startSel = selectedChatId, !.pc = "ensure"]]
                /\ started' = started + 1
                /\ creatingChat' = TRUE
                /\ UNCHANGED <<sending, busy>>
        /\ UNCHANGED <<db, page, showTeamChatModal, inheritSourceIds,
                       teamCreate, deleting, user, services>>

\* selectedSource (page.tsx:601-604) and targetSources (page.tsx:981).
SelectedSource ==
    { x \in sources : x.id = selectedKnowledge }
TargetSources ==
    IF selectedKnowledge # Null /\ SelectedSource # {}
    THEN SetToDescSeq(SelectedSource)
    ELSE SetToDescSeq(sources)

\* Faulty variant: the form never holds a question back.
AskAlwaysAcceptedMutant == FALSE

\* Faulty variant: an ask also waits for the asks in flight.
AskDisabledMutant ==
    sending \/ \E s \in Slots : writers[s].kind = "ask"

\* What keeps a question from being submitted (page.tsx:967, 1517).
AskDisabled == sending

\* handleAsk up to its first await on the network (page.tsx:965-973).
handleAsk ==
    \E s \in Slots, q \in Questions :
        /\ ~AskDisabled
        /\ StartWriter(s, [IdleWriter EXCEPT !.kind = "ask", !.pc = "user",
                                             !.question = q,
                                             !.targetSources = TargetSources])

\* handleKnowledgeUpload up to its first await on the network
\* (page.tsx:761-769): the user picked the files.
handleKnowledgeUpload ==
    \E s \in Slots, files \in FileLists :
        /\ DocsLeft(Len(files))
        /\ StartWriter(s, [IdleWriter EXCEPT !.kind = "upload", !.pc = "extract",
                                             !.files = files])

\* handleTextModalSubmit (page.tsx:854-866) and handleUrlModalSubmit
\* (page.tsx:906-917) up to their first await on the network.
handleTextModalSubmit ==
    \E s \in Slots, f \in TextInputs :
        /\ DocsLeft(1)
        /\ StartWriter(s, [IdleWriter EXCEPT !.kind = "text", !.pc = "analyze",
                                             !.files = <<f>>])

handleUrlModalSubmit ==
    \E s \in Slots, f \in UrlInputs :
        /\ DocsLeft(1)
        /\ ~urlSubmitting
        /\ StartWriter(s, [IdleWriter EXCEPT !.kind = "url", !.pc = "extract",
                                             !.files = <<f>>])

\* Faulty variant: the new-chat button never asks.
AsksWhatToInheritMutant(ac) == FALSE

\* The test of handleCreateNewChat (page.tsx:739): whether the new-chat
\* button opens the inherit-selection dialog instead of creating a thread.
AsksWhatToInherit(ac) == ac.type = "team"

\* handleCreateNewChat outside team scope (page.tsx:738-745): the button is
\* disabled while creatingChat.
handleCreateNewChat ==
    \E s \in Slots :
        /\ authUser
        /\ ~showTeamChatModal
        /\ ~AsksWhatToInherit(activeChat)
        /\ ~creatingChat
        /\ FreeSlot(s)
        /\ CreateStarts(activeChat)
        /\ ChatLeft
        /\ writers' = [writers EXCEPT ![s] =
               [IdleWriter EXCEPT !.kind = "newchat", !.pc = "ensure",
                                  !.activeChat = activeChat,
                                  !.startSel = selectedChatId]]
        /\ creatingChat' = TRUE
        /\ UNCHANGED <<db, page, sending, showTeamChatModal, inheritSourceIds,
                       teamCreate, deleting, started, busy, user, services>>

\* The addDoc of createNewChatThread resolves (page.tsx:679-693): the thread
\* exists, is selected, and the caller goes on.
CreateNewChatThreadDone ==
    \E s \in Slots :
        LET w == writers[s]
            returns == w.kind = "newchat" \/ AbortsAtOnce(w)
        IN  /\ w.pc = "ensure"
            /\ chats' = AddChat(w.activeChat.type, w.activeChat.teamId)
            /\ SetSelectedChatId(NewChatId)
            /\ creatingChat' = FALSE
            /\ sending' = IF w.kind = "ask" THEN TRUE ELSE sending
            /\ writers' = [writers EXCEPT ![s] =
                   IF returns THEN IdleWriter
                   ELSE [w EXCEPT !.pc = FirstPc(w.kind), !.activeId = NewChatId,
                                  !.created = NewChatId]]
            /\ IF ThrowsAtOnce(w) THEN FinallyIngest(w)
               ELSE IF returns THEN UNCHANGED busy
               ELSE SetBusy(w)
            /\ UNCHANGED <<documents, messages, storage, nextDoc, nextPath,
                           showTeamChatModal, inheritSourceIds, teamCreate,
                           deleting, started, user, services>>

\* ------------------------------------------------------------- ingestion
\* The extraction call settles (page.tsx:787-790, 919-923): it throws on a
\* file or address it cannot read, and the URL handler throws on an empty
\* text; else the handler goes on to the analysis.
ExtractionSettled ==
    \E s \in Slots :
        LET w == writers[s]
            f == Head(w.files)
            throws == \/ Catalog[f].fault \in ExtractionFaults
                      \/ w.kind = "url" /\ Catalog[f].text = << >>
        IN  /\ w.pc = "extract"
            /\ IF throws
               THEN /\ writers' = [writers EXCEPT ![s] = IdleWriter]
                    /\ FinallyIngest(w)
               ELSE /\ writers' = [writers EXCEPT ![s].pc = "analyze"]
                    /\ IF w.kind = "url"
                       THEN Busy(uploading, Status(Catalog[f].name, 60),
                                 urlSubmitting)
                       ELSE UNCHANGED busy
            /\ UNCHANGED <<db, page, flags, teamCreate, deleting, started, user, services>>

\* Faulty variant: the Source of an upload is written without its blob.
UploadsBlobMutant(w) == FALSE

\* Whether the handler stores a blob before it writes the Source
\* (page.tsx:792-810): the file upload does, paste and URL add do not.
UploadsBlob(w) == w.kind = "upload"

\* The analysis call settles with the given outcome (page.tsx:791, 868,
\* 925): when analyzePdfText throws the catch and finally blocks run; else
\* an upload has its storage path and starts the blob upload
\* (page.tsx:792-798), a paste or URL add goes on to write the Source.
AnalyzeStep(outcome) ==
    \E s \in Slots :
        LET w == writers[s]
            f == Head(w.files)
            analysis == analyzePdfText(Catalog[f], outcome)
        IN  /\ w.pc = "analyze"
            /\ IF ~analysis.ok
               THEN /\ writers' = [writers EXCEPT ![s] = IdleWriter]
                    /\ FinallyIngest(w)
                    /\ UNCHANGED nextPath
               ELSE IF UploadsBlob(w)
               THEN /\ writers' = [writers EXCEPT ![s] =
                           [w EXCEPT !.pc = "blob", !.storagePath = nextPath,
                                     !.analysis = analysis]]
                    /\ nextPath' = nextPath + 1
                    /\ Busy(uploading, Status(Catalog[f].name, 0), urlSubmitting)
               ELSE /\ writers' = [writers EXCEPT ![s] =
                           [w EXCEPT !.pc = "source", !.storagePath = Null,
                                     !.analysis = analysis]]
                    /\ UNCHANGED nextPath
                    /\ IF w.kind = "url"
                       THEN Busy(uploading, Status(Catalog[f].name, 100),
                                 urlSubmitting)
                       ELSE UNCHANGED busy
            /\ UNCHANGED <<chats, documents, messages, storage, nextDoc, page,
                           flags, teamCreate, deleting, started, user, services>>

\* The analysis call settles, whatever happens to it.
AnalysisSettled == \E outcome \in AnalyzeOutcomes : AnalyzeStep(outcome)

\* The analysis call settles, the hosted model having answered.
AnalysisDone == AnalyzeStep("answer")

\* The blob upload completed (page.tsx:798-809), its last progress event
\* delivered; the handler asks for the blob's address.
BlobUploadDone ==
    \E s \in Slots :
        LET w == writers[s]
        IN  /\ w.pc = "blob"
            /\ storage' = storage \cup {w.storagePath}
            /\ writers' = [writers EXCEPT ![s].pc = "address"]
            /\ Busy(uploading, Status(Catalog[Head(w.files)].name, 100),
                    urlSubmitting)
            /\ UNCHANGED <<chats, documents, messages, nextDoc, nextPath, page,
                           flags, teamCreate, deleting, started, user, services>>

\* getDownloadURL resolves (page.tsx:810).
DownloadURLRead ==
    \E s \in Slots :
        LET w == writers[s]
        IN  /\ w.pc = "address"
            /\ writers' = [writers EXCEPT ![s] =
                   [w EXCEPT !.pc = "source", !.downloadURL = w.storagePath]]
            /\ UNCHANGED <<db, page, flags, teamCreate, deleting, started, busy,
                           user, services>>

\* The collection an ingestion writes its Source to (page.tsx:822-826).
SourceCollection(w) == IF w.activeChat.type = "team" THEN w.activeId ELSE Null

\* The Source record is written (page.tsx:812-826, 869-884, 927-943).
SourceWritten ==
    \E s \in Slots :
        LET w == writers[s]
        IN  /\ w.pc = "source"
            /\ documents' = documents \cup
                   {NewDocument(SourceCollection(w), Head(w.files),
                                w.storagePath, w.analysis)}
            /\ nextDoc' = nextDoc + 1
            /\ writers' = [writers EXCEPT ![s].pc = "message"]
            /\ UNCHANGED <<chats, messages, storage, nextPath, page, flags,
                           teamCreate, deleting, started, busy, user, services>>

\* The summary message is written (page.tsx:828-832, 886-890, 945-949).
SummaryMessageWritten ==
    \E s \in Slots :
        LET w == writers[s]
        IN  /\ w.pc = "message"
            /\ messages' = AddMessage(w.activeId, "assistant",
                                      buildPdfSummaryMessage(
                                          Catalog[Head(w.files)].name,
                                          w.analysis.summary,
                                          w.analysis.plans), w.n)
            /\ writers' = [writers EXCEPT ![s].pc = "update"]
            /\ UNCHANGED <<chats, documents, storage, nextDoc, nextPath, page,
                           flags, teamCreate, deleting, started, busy, user, services>>

\* ------------------------------------------------------------------- ask
\* Faulty variant: the chat call is issued without the user message having
\* been written.
UserMessageWrittenMutant ==
    \E s \in Slots :
        LET w == writers[s]
        IN  /\ w.pc = "user"
            /\ writers' = [writers EXCEPT ![s].pc = "api"]
            /\ UNCHANGED <<db, page, flags, teamCreate, deleting, started, busy, user, services>>

\* The user message is written (page.tsx:975-979); the chat call is issued.
UserMessageWritten ==
    \E s \in Slots :
        LET w == writers[s]
        IN  /\ w.pc = "user"
            /\ messages' = AddMessage(w.activeId, "user",
                                      QuestionText(w.question), w.n)
            /\ writers' = [writers EXCEPT ![s].pc = "api"]
            /\ UNCHANGED <<chats, documents, storage, nextDoc, nextPath, page,
                           flags, teamCreate, deleting, started, busy, user, services>>

\* generateAiReply settles (page.tsx:982-994): the reply to store is fixed.
ChatCallSettled ==
    \E s \in Slots, outcome \in ChatOutcomes :
        LET w == writers[s]
        IN  /\ w.pc = "api"
            /\ writers' = [writers EXCEPT ![s] =
                   [w EXCEPT !.pc = "assistant", !.outcome = outcome,
                             !.reply = AssistantReply(outcome, w.question,
                                                      w.targetSources)]]
            /\ UNCHANGED <<db, page, flags, teamCreate, deleting, started, busy, user, services>>

\* The assistant message is written (page.tsx:995-999).
AssistantMessageWritten ==
    \E s \in Slots :
        LET w == writers[s]
        IN  /\ w.pc = "assistant"
            /\ messages' = AddMessage(w.activeId, "assistant", w.reply, w.n)
            /\ writers' = [writers EXCEPT ![s].pc = "update"]
            /\ UNCHANGED <<chats, documents, storage, nextDoc, nextPath, page,
                           flags, teamCreate, deleting, started, busy, user, services>>

\* The updateDoc of the thread resolves (page.tsx:833-835, 891-893, 950-952,
\* 1000-1002): an upload goes on with its next file, any other write action
\* ends (finally).
ThreadUpdated ==
    \E s \in Slots :
        LET w == writers[s]
            rest == [w EXCEPT !.pc = "extract", !.files = Tail(w.files),
                              !.storagePath = Null, !.analysis = NoAnalysis,
                              !.downloadURL = Null]
            more == /\ w.kind = "upload"
                    /\ Len(w.files) > 1
                    /\ ~AbortsAtOnce(rest)
        IN  /\ w.pc = "update"
            /\ chats' = TouchChat(w.activeId)
            /\ writers' = [writers EXCEPT ![s] = IF more THEN rest ELSE IdleWriter]
            /\ sending' = IF w.kind = "ask" THEN FALSE ELSE sending
            /\ IF more THEN UNCHANGED busy ELSE FinallyIngest(w)
            /\ UNCHANGED <<documents, messages, storage, nextDoc, nextPath, page,
                           creatingChat, showTeamChatModal, inheritSourceIds,
                           teamCreate, deleting, started, user, services>>

\* A Firestore or Storage write of a write action is rejected: the catch
\* and finally blocks run (page.tsx:688-693, 837-842, 898-903, 956-962,
\* 1003-1004).  An ask goes on to write its failure notice.
WriteRejected ==
    \E s \in Slots :
        LET w == writers[s]
        IN  /\ w.pc \in {"ensure", "blob", "address", "source", "message",
                          "update", "user", "assistant"}
            /\ writers' = [writers EXCEPT ![s] =
                   IF w.kind = "ask" /\ w.pc # "ensure"
                   THEN [w EXCEPT !.pc = "notice"] ELSE IdleWriter]
            /\ creatingChat' = IF w.pc = "ensure" THEN FALSE ELSE creatingChat
            /\ IF w.pc = "ensure" THEN UNCHANGED busy ELSE FinallyIngest(w)
            /\ UNCHANGED <<db, page, sending, showTeamChatModal,
                           inheritSourceIds, teamCreate, deleting, started, user, services>>

\* The write of the failure notice settles, accepted or not
\* (page.tsx:1005-1016).
NoticeSettled ==
    \E s \in Slots, accepted \in BOOLEAN :
        LET w == writers[s]
        IN  /\ w.pc = "notice"
            /\ messages' = IF accepted
                           THEN AddMessage(w.activeId, "assistant", AskFailedText, w.n)
                           ELSE messages
            /\ writers' = [writers EXCEPT ![s] = IdleWriter]
            /\ sending' = FALSE
            /\ UNCHANGED <<chats, documents, storage, nextDoc, nextPath, page,
                           creatingChat, showTeamChatModal, inheritSourceIds,
                           teamCreate, deleting, started, busy, user, services>>

\* ------------------------------------------------------- team chat dialog
\* handleCreateNewChat in team scope (page.tsx:738-743): the dialog opens.
OpenTeamChatModal ==
    /\ authUser
    /\ ~showTeamChatModal
    /\ AsksWhatToInherit(activeChat)
    /\ ~creatingChat
    /\ inheritSourceIds' = {}
    /\ showTeamChatModal' = TRUE
    /\ UNCHANGED <<db, page, sending, creatingChat, procs, busy, user, services>>

\* toggleInheritSource (page.tsx:747-751) on a row of the dialog.
toggleInheritSource ==
    \E x \in globalSources :
        /\ showTeamChatModal
        /\ inheritSourceIds' = IF x.id \in inheritSourceIds
                               THEN inheritSourceIds \ {x.id}
                               ELSE inheritSourceIds \cup {x.id}
        /\ UNCHANGED <<db, page, sending, creatingChat, showTeamChatModal, procs, busy, user, services>>

\* The dialog's cancel button (page.tsx:1633-1640).
CancelTeamChatModal ==
    /\ showTeamChatModal
    /\ ~creatingChat
    /\ inheritSourceIds' = {}
    /\ showTeamChatModal' = FALSE
    /\ UNCHANGED <<db, page, sending, creatingChat, procs, busy, user, services>>

\* inheritTargets (page.tsx:709), from the globalSources of the render the
\* dialog was submitted from.
InheritTargets(sourceIds) ==
    SetToDescSeq({ x \in globalSources : x.id \in sourceIds })

\* handleTeamChatCreateSubmit (page.tsx:753-755) and
\* createTeamChatWithInheritance up to its first addDoc (page.tsx:696-707).
\* The submit button is disabled while creatingChat.
handleTeamChatCreateSubmit ==
    /\ showTeamChatModal
    /\ ~creatingChat
    /\ teamCreate.pc = "idle"
    /\ authUser
    /\ activeChat.type = "team" /\ activeChat.teamId \in teams
    /\ ChatLeft
    /\ DocsLeft(Len(InheritTargets(inheritSourceIds)))
    /\ creatingChat' = TRUE
    /\ teamCreate' = [pc |-> "create", teamId |-> activeChat.teamId,
                      inheritTargets |-> InheritTargets(inheritSourceIds),
                      k |-> 0, created |-> Null]
    /\ UNCHANGED <<db, page, sending, showTeamChatModal, inheritSourceIds,
                   writers, deleting, started, busy, user, services>>

\* The end of createTeamChatWithInheritance and of the submit handler
\* (page.tsx:723-724, 728-730, 756-758) for the created thread id.
TeamCreateReturns(id) ==
    /\ SetSelectedChatId(id)
    /\ creatingChat' = FALSE
    /\ inheritSourceIds' = {}
    /\ showTeamChatModal' = FALSE
    /\ teamCreate' = IdleTeamCreate

\* The addDoc of the team thread resolves (page.tsx:701-707).
TeamThreadCreated ==
    /\ teamCreate.pc = "create"
    /\ chats' = AddChat("team", teamCreate.teamId)
    /\ IF Len(teamCreate.inheritTargets) = 0
       THEN TeamCreateReturns(NewChatId)
       ELSE /\ teamCreate' = [teamCreate EXCEPT !.pc = "copy",
                                                !.created = NewChatId]
            /\ UNCHANGED <<page, creatingChat, inheritSourceIds,
                           showTeamChatModal>>
    /\ UNCHANGED <<documents, messages, storage, nextDoc, nextPath, sending,
                   writers, deleting, started, busy, user, services>>

\* The addDoc of the next copy resolves (page.tsx:710-721).
InheritedCopyWritten ==
    LET source == teamCreate.inheritTargets[teamCreate.k + 1]
    IN  /\ teamCreate.pc = "copy"
        /\ documents' = documents \cup {InheritedCopy(teamCreate.created, source)}
        /\ nextDoc' = nextDoc + 1
        /\ IF teamCreate.k + 1 = Len(teamCreate.inheritTargets)
           THEN TeamCreateReturns(teamCreate.created)
           ELSE /\ teamCreate' = [teamCreate EXCEPT !.k = @ + 1]
                /\ UNCHANGED <<page, creatingChat, inheritSourceIds,
                               showTeamChatModal>>
        /\ UNCHANGED <<chats, messages, storage, nextPath, sending, writers,
                       deleting, started, busy, user, services>>

\* An addDoc of createTeamChatWithInheritance is rejected (page.tsx:725-730):
\* it returns null and the dialog stays open.
TeamCreateRejected ==
    /\ teamCreate.pc \in {"create", "copy"}
    /\ teamCreate' = IdleTeamCreate
    /\ creatingChat' = FALSE
    /\ UNCHANGED <<db, page, sending, showTeamChatModal, inheritSourceIds,
                   writers, deleting, started, busy, user, services>>

\* ---------------------------------------------------------- delete source
\* Faulty variant: the blob is deleted whenever the Source has a storage
\* path, whatever the scope and the origin of the record.
DeletesBlobMutant(source, ac) == source.storagePath # Null

\* Whether handleDeleteSource deletes the blob (page.tsx:1027-1028).
DeletesBlob(source, ac) ==
    LET deletingTeamLocalSource ==
            ac.type = "team" /\ source.inheritedFromDocumentId = Null
    IN  source.storagePath # Null /\ (ac.type # "team" \/ deletingTeamLocalSource)

\* Faulty variant: the answer of the confirm dialog is ignored.
ProceedsWithDeleteMutant(shouldDelete) == TRUE

\* The test of handleDeleteSource on the answer of window.confirm
\* (page.tsx:1022-1023).
ProceedsWithDelete(shouldDelete) == shouldDelete

\* handleDeleteSource up to its first await (page.tsx:1019-1033): the user
\* answers the confirm dialog with shouldDelete.
handleDeleteSource ==
    \E x \in sources, shouldDelete \in BOOLEAN :
        /\ authUser
        /\ ~showTeamChatModal
        /\ ~(activeChat.type = "team" /\ selectedChatId = Null)
        /\ deleting.pc = "idle"
        /\ declined' = IF shouldDelete THEN declined ELSE ~declined
        /\ IF ProceedsWithDelete(shouldDelete)
           THEN /\ deleting' =
                       [pc |-> IF DeletesBlob(x, activeChat) THEN "blob" ELSE "doc",
                        source |-> <<x>>, activeChat |-> activeChat,
                        selectedChatId |-> selectedChatId,
                        selectedKnowledge |-> selectedKnowledge]
                /\ deletingSourceId' = x.id
           ELSE UNCHANGED <<deleting, deletingSourceId>>
        /\ UNCHANGED <<db, page, flags, writers, teamCreate, started, uploading,
                       uploadStatus, urlSubmitting, budget, services>>

\* The user confirms the dialog.
ConfirmedDelete == handleDeleteSource /\ declined' = declined

\* deleteObject settles (page.tsx:1029): it rejects when no blob is there or
\* when the store refuses, and then the catch and finally blocks run.
DeleteObjectSettled ==
    \E accepted \in BOOLEAN :
        LET path == deleting.source[1].storagePath
        IN  /\ deleting.pc = "blob"
            /\ IF accepted /\ path \in storage
               THEN /\ storage' = storage \ {path}
                    /\ deleting' = [deleting EXCEPT !.pc = "doc"]
                    /\ UNCHANGED deletingSourceId
               ELSE /\ deleting' = IdleDeleting
                    /\ deletingSourceId' = Null
                    /\ UNCHANGED storage
            /\ UNCHANGED <<chats, documents, messages, nextDoc, nextPath, page,
                           flags, writers, teamCreate, started, uploading,
                           uploadStatus, urlSubmitting, user, services>>

\* Faulty variant: a delete cascades to the records copied from the deleted
\* one.
DeleteDocMutant(docs, coll, id) ==
    { d \in docs : ~(d.id = id /\ d.coll = coll) /\ d.inheritedFromDocumentId # id }

\* deleteDoc of the record id of collection coll (page.tsx:1031-1036).
DeleteDoc(docs, coll, id) == { d \in docs : ~(d.id = id /\ d.coll = coll) }

\* deleteDoc settles (page.tsx:1031-1045); deleting a missing record is
\* accepted and changes nothing.
DeleteDocSettled ==
    \E accepted \in BOOLEAN :
        LET source == deleting.source[1]
            coll == IF deleting.activeChat.type = "team"
                    THEN deleting.selectedChatId ELSE Null
        IN  /\ deleting.pc = "doc"
            /\ deleting' = IdleDeleting
            /\ deletingSourceId' = Null
            /\ IF accepted
               THEN /\ documents' = DeleteDoc(documents, coll, source.id)
                    /\ IF deleting.selectedKnowledge = source.id
                       THEN Render(authUser, teams, activeChat, selectedChatId,
                                   chatThreads, globalSources, sources, Null)
                       ELSE UNCHANGED page
               ELSE UNCHANGED <<documents, page>>
            /\ UNCHANGED <<chats, messages, storage, nextDoc, nextPath, flags,
                           writers, teamCreate, started, uploading, uploadStatus,
                           urlSubmitting, user, services>>

\* ------------------------------------------------------------ specification
Snapshots ==
    \/ TeamsSnapshot
    \/ ChatsSnapshot
    \/ DocumentsSnapshot
    \/ TeamDocumentsSnapshot

UserActions ==
    \/ SelectTeam
    \/ SelectPersonal
    \/ SelectThread
    \/ SelectKnowledge
    \/ handleLogout
    \/ handleAsk
    \/ handleKnowledgeUpload
    \/ handleTextModalSubmit
    \/ handleUrlModalSubmit
    \/ handleCreateNewChat
    \/ OpenTeamChatModal
    \/ toggleInheritSource
    \/ CancelTeamChatModal
    \/ handleTeamChatCreateSubmit
    \/ handleDeleteSource

\* The awaits of the handlers in flight that resolve.
Resolves ==
    \/ CreateNewChatThreadDone
    \/ ExtractionSettled
    \/ AnalysisSettled
    \/ BlobUploadDone
    \/ DownloadURLRead
    \/ SourceWritten
    \/ SummaryMessageWritten
    \/ UserMessageWritten
    \/ ChatCallSettled
    \/ AssistantMessageWritten
    \/ ThreadUpdated
    \/ TeamThreadCreated
    \/ InheritedCopyWritten
    \/ DeleteObjectSettled
    \/ DeleteDocSettled

\* The writes Firestore or Storage rejects.
Rejects ==
    \/ WriteRejected
    \/ NoticeSettled
    \/ TeamCreateRejected

Next == Snapshots \/ MessagesSnapshot \/ UserActions \/ Resolves \/ Rejects

Spec == Init /\ [][Next]_vars

\* ------------------------------------------------- focused specifications
\* Inheritance and deletion for a returning user, under scope switches and
\* snapshot deliveries, with a database that accepts the writes.
InheritNext ==
    \/ Snapshots
    \/ SelectTeam
    \/ SelectPersonal
    \/ SelectThread
    \/ OpenTeamChatModal
    \/ toggleInheritSource
    \/ CancelTeamChatModal
    \/ handleTeamChatCreateSubmit
    \/ TeamThreadCreated
    \/ InheritedCopyWritten
    \/ ConfirmedDelete
    \/ DeleteObjectSettled
    \/ DeleteDocSettled

SpecInherit == (InitPasted \/ InitTeamUpload) /\ [][InheritNext]_vars

\* The Source list of a returning user: pinning and deleting Sources, the
\* confirm dialog answered either way, under scope switches and snapshot
\* deliveries, with a store that accepts or rejects the deletes.
DeleteNext ==
    \/ Snapshots
    \/ SelectTeam
    \/ SelectPersonal
    \/ SelectThread
    \/ SelectKnowledge
    \/ handleDeleteSource
    \/ DeleteObjectSettled
    \/ DeleteDocSettled

SpecDelete == (InitPasted \/ InitTeamUpload) /\ [][DeleteNext]_vars

\* Ingestion: upload, paste and URL add of every input of the catalogue,
\* with an analysis service that answers or fails in each of its ways and a
\* store that accepts or rejects the writes, under scope switches and
\* snapshot deliveries.
IngestNext ==
    \/ Snapshots
    \/ SelectTeam
    \/ SelectPersonal
    \/ SelectThread
    \/ handleKnowledgeUpload
    \/ handleTextModalSubmit
    \/ handleUrlModalSubmit
    \/ CreateNewChatThreadDone
    \/ ExtractionSettled
    \/ AnalysisSettled
    \/ BlobUploadDone
    \/ DownloadURLRead
    \/ SourceWritten
    \/ SummaryMessageWritten
    \/ ThreadUpdated
    \/ WriteRejected

SpecIngest == (InitFresh \/ InitPasted) /\ [][IngestNext]_vars

\* The user asks the first question of the list; the chat service answers.
AskFirstQuestion ==
    handleAsk /\ \A s \in Slots : writers'[s].question \in {<< >>, <<"support">>}
ChatCallAnswered ==
    ChatCallSettled /\ \A s \in Slots : writers'[s].outcome \in {"", "answer"}

\* A new user who submits questions as fast as the form lets them, with a
\* chat service and a database that answer in any order.
AsksNext ==
    \/ ChatsSnapshot
    \/ SelectThread
    \/ AskFirstQuestion
    \/ CreateNewChatThreadDone
    \/ UserMessageWritten
    \/ ChatCallAnswered
    \/ AssistantMessageWritten
    \/ ThreadUpdated

SpecAsks == InitAsker /\ [][AsksNext]_vars

\* No handler is in flight.
Quiet ==
    /\ \A s \in Slots : writers[s].kind = "idle"
    /\ teamCreate.pc = "idle"
    /\ deleting.pc = "idle"

\* A user who starts an action only when the previous one has finished.
PasteWhenQuiet == Quiet /\ handleTextModalSubmit
DeleteWhenQuiet == Quiet /\ ConfirmedDelete
OpenTeamChatModalWhenQuiet == Quiet /\ OpenTeamChatModal

\* The knowledge store for that user: pasting, inheritance and deletion,
\* under scope switches and snapshot deliveries, with a database that
\* accepts the writes.
StoreNext ==
    \/ Snapshots
    \/ SelectTeam
    \/ SelectPersonal
    \/ SelectThread
    \/ PasteWhenQuiet
    \/ AnalysisDone
    \/ SourceWritten
    \/ SummaryMessageWritten
    \/ ThreadUpdated
    \/ OpenTeamChatModalWhenQuiet
    \/ toggleInheritSource
    \/ CancelTeamChatModal
    \/ handleTeamChatCreateSubmit
    \/ TeamThreadCreated
    \/ InheritedCopyWritten
    \/ DeleteWhenQuiet
    \/ DeleteObjectSettled
    \/ DeleteDocSettled

SpecStore == InitTeamUpload /\ [][StoreNext]_vars

\* The thread manager for a new user: every write action and the new-chat
\* actions, under scope switches and snapshot deliveries, with a database
\* that accepts the writes.
ThreadsNext ==
    \/ Snapshots
    \/ SelectTeam
    \/ SelectPersonal
    \/ SelectThread
    \/ handleAsk
    \/ handleKnowledgeUpload
    \/ handleTextModalSubmit
    \/ handleUrlModalSubmit
    \/ handleCreateNewChat
    \/ CreateNewChatThreadDone
    \/ ExtractionSettled
    \/ AnalysisDone
    \/ BlobUploadDone
    \/ DownloadURLRead
    \/ SourceWritten
    \/ SummaryMessageWritten
    \/ UserMessageWritten
    \/ ChatCallSettled
    \/ AssistantMessageWritten
    \/ ThreadUpdated
    \/ OpenTeamChatModal
    \/ toggleInheritSource
    \/ CancelTeamChatModal
    \/ handleTeamChatCreateSubmit
    \/ TeamThreadCreated
    \/ InheritedCopyWritten

SpecThreads == InitFresh /\ [][ThreadsNext]_vars

\* The answer pipeline: asks over the sources in scope, with every outcome
\* of the chat call and of the database writes.
AskSteps ==
    \/ CreateNewChatThreadDone
    \/ UserMessageWritten
    \/ ChatCallSettled
    \/ AssistantMessageWritten
    \/ ThreadUpdated

AskNext ==
    \/ Snapshots
    \/ SelectTeam
    \/ SelectPersonal
    \/ SelectThread
    \/ SelectKnowledge
    \/ handleLogout
    \/ handleAsk
    \/ AskSteps
    \/ WriteRejected
    \/ NoticeSettled

SpecAsk == Init /\ [][AskNext]_vars

\* The answer pipeline with a database that accepts the writes.  Every await
\* of handleAsk settles: Firestore resolves an accepted write, and the chat
\* call resolves or rejects.
AskAcceptedNext ==
    \/ Snapshots
    \/ SelectTeam
    \/ SelectPersonal
    \/ SelectThread
    \/ SelectKnowledge
    \/ handleLogout
    \/ handleAsk
    \/ AskSteps

SpecAskAccepted == Init /\ [][AskAcceptedNext]_vars /\ WF_vars(AskSteps)

\* The listeners of a returning user who switches scope and thread, asks
\* and signs out, with a database that accepts the writes.
SubscriptionsNext ==
    \/ Snapshots
    \/ MessagesSnapshot
    \/ SelectTeam
    \/ SelectPersonal
    \/ SelectThread
    \/ handleLogout
    \/ handleAsk
    \/ AskSteps

SpecSubscriptions ==
    (InitPasted \/ InitTeamUpload) /\ [][SubscriptionsNext]_vars

\* The team-chat dialog of a returning user, with a database that accepts or
\* rejects each write of createTeamChatWithInheritance, under scope
\* switches and snapshot deliveries.
TeamCreateNext ==
    \/ Snapshots
    \/ SelectTeam
    \/ SelectPersonal
    \/ SelectThread
    \/ OpenTeamChatModal
    \/ toggleInheritSource
    \/ CancelTeamChatModal
    \/ handleTeamChatCreateSubmit
    \/ TeamThreadCreated
    \/ InheritedCopyWritten
    \/ TeamCreateRejected

SpecTeamCreate == InitPasted /\ [][TeamCreateNext]_vars

\* ------------------------------------------------ the services, on their own
\* The page is idle while a service or a pure function is examined.
PageIdle ==
    /\ EmptyStore
    /\ PageOpens
    /\ budget = MaxWrites

NoBootstrap ==
    /\ organizations = {}
    /\ members = {}
    /\ bootstrap = << >>

\* The sequences over S of at most n elements.
SeqsUpTo(S, n) == UNION { [1..k -> S] : k \in 0..n }

\* The analysis pipeline: analyzePdfText applied to a text and to what
\* happens to its request.
MaxMentions == 2     \* price mentions in a text, any of them
MaxAnswerPlans == 2  \* plans in an answer of the hosted model, any of them
ManyPlans == 9       \* plans of the long price list

\* What the plan regex captures: a name (blank after trimming, the default
\* name, or another) and an amount.
Mentions == [name : {"", DefaultPlanName, "Basic"}, price : {1000, 3000}]
\* A price list of n plans that differ in their price.
PriceList(n) == [i \in 1..n |-> [name |-> "Basic", price |-> 1000 * i]]
MentionLists ==
    SeqsUpTo(Mentions, MaxMentions) \cup {PriceList(MaxPlans), PriceList(ManyPlans)}

\* The plans of a JSON answer of the hosted model.
RawPlans ==
    [name : {"Basic", " Basic", ""},
     priceMonthlyYen : {1000, NoPrice, NotANumber},
     note : {""}]
RawPriceList(n) ==
    [i \in 1..n |-> [name |-> "Basic", priceMonthlyYen |-> 1000 * i, note |-> ""]]
RawPlanLists ==
    SeqsUpTo(RawPlans, MaxAnswerPlans)
        \cup {RawPriceList(MaxPlans), RawPriceList(ManyPlans)}

AnalyzeInputs ==
    [text : {<<"pricing">>, << >>}, head : {"head"}, mentions : MentionLists,
     form : {"json", "wrapped", "wrong-shape"}, summary : {"sum"},
     plans : RawPlanLists]

InitAnalyze ==
    /\ PageIdle
    /\ NoBootstrap
    /\ NoSignup
    /\ urlExtract = NoRequest
    /\ \E input \in AnalyzeInputs, outcome \in AnalyzeOutcomes :
           call = [fn |-> "analyzePdfText", input |-> input,
                   outcome |-> outcome, done |-> FALSE, result |-> NoAnalysis]

\* analyzePdfText returns or throws.
AnalyzeApplied ==
    /\ call.fn = "analyzePdfText"
    /\ ~call.done
    /\ call' = [call EXCEPT !.done = TRUE,
                            !.result = analyzePdfText(call.input, call.outcome)]
    /\ UNCHANGED <<db, page, flags, procs, busy, user, signup, urlExtract,
                   organizations, members, bootstrap>>

AnalyzeNext == AnalyzeApplied

SpecAnalyze == InitAnalyze /\ [][AnalyzeNext]_vars

\* The local answer engine: buildAssistantReply applied to a question and a
\* candidate list.
MaxCandidates == 3   \* candidate Sources of one question

\* A plan whose note tells it from PlanBasic.
PlanBasicNoted == [name |-> "Basic", priceMonthlyYen |-> 1000, note |-> "tax"]
PlanUnpriced == [name |-> "Pro", priceMonthlyYen |-> NoPrice, note |-> ""]

\* The questions: one word of a text, two words, a word of no text, and a
\* price question.
ReplyQuestions ==
    { <<"support">>, <<"basic", "support">>, <<"hello">>, <<"plan">>,
      <<"plan", "support">> }

\* The candidates as the snapshot callbacks build them (page.tsx:442-451):
\* pricingPlans went through parsePricingPlans, so no plan has an empty
\* name.  The k-th candidate is named after its position.
CandidateNames == <<"first.pdf", "second.pdf", "third.pdf", "fourth.pdf">>
CandidateBodies ==
    [text : {<< >>, <<"basic", "support">>, <<"support", "3000yen/month">>},
     summary : {"", "sum"},
     pricingPlans : {<< >>, <<PlanBasic, PlanUnpriced>>,
                     <<PlanBasic, PlanBasicNoted>>}]
Candidates(bodies) ==
    [k \in DOMAIN bodies |->
        [name |-> CandidateNames[k], text |-> bodies[k].text,
         summary |-> bodies[k].summary,
         pricingPlans |-> bodies[k].pricingPlans]]

InitReply ==
    /\ PageIdle
    /\ NoBootstrap
    /\ NoSignup
    /\ urlExtract = NoRequest
    /\ \E question \in ReplyQuestions,
          bodies \in SeqsUpTo(CandidateBodies, MaxCandidates) :
           call = [fn |-> "buildAssistantReply", question |-> question,
                   sources |-> Candidates(bodies), done |-> FALSE,
                   result |-> EmptyText]

\* buildAssistantReply returns.
ReplyBuilt ==
    /\ call.fn = "buildAssistantReply"
    /\ ~call.done
    /\ call' = [call EXCEPT !.done = TRUE,
                            !.result = buildAssistantReply(call.question,
                                                           call.sources)]
    /\ UNCHANGED <<db, page, flags, procs, busy, user, signup, urlExtract,
                   organizations, members, bootstrap>>

ReplyNext == ReplyBuilt

SpecReply == InitReply /\ [][ReplyNext]_vars

\* The URL extraction route (POST /api/url-extract), one request at a time.
\* A hostname is the sequence of its labels.
MaxRedirects == 1    \* redirects one fetch follows

UrlHosts ==
    { <<"localhost">>, <<"LOCALHOST">>, <<"printer", "local">>,
      <<"0", "0", "0", "0">>, <<"127", "0", "0", "1">>, <<"10", "0", "0", "5">>,
      <<"192", "168", "1", "1">>, <<"172", "16", "0", "1">>,
      <<"172", "20", "0", "1">>, <<"172", "31", "0", "1">>,
      <<"172", "15", "0", "1">>, <<"172", "32", "0", "1">>,
      <<"192", "169", "1", "1">>, <<"11", "0", "0", "1">>,
      <<"example", "com">>, <<"local">>, <<"localhost", "example", "com">> }
UrlSchemes == {"http:", "https:", "ftp:", "file:"}

\* The url field of a request body: blank, not a URL, or a URL.
RequestUrls ==
    { [kind |-> "blank", protocol |-> "", host |-> << >>],
      [kind |-> "malformed", protocol |-> "", host |-> << >>] }
        \cup [kind : {"url"}, protocol : UrlSchemes, host : UrlHosts]

\* The lower-case form of the labels that occur.
ToLowerCase(label) ==
    CASE label = "LOCALHOST" -> "localhost"
      [] OTHER -> label

\* new URL(rawUrl).hostname (part_000:304): the host in lower case.
Hostname(url) == [i \in DOMAIN url.host |-> ToLowerCase(url.host[i])]

\* /^172\.(1[6-9]|2\d|3[0-1])\./ (part_000:263): the second labels it takes.
PrivateSecondLabels ==
    {"16", "17", "18", "19", "20", "21", "22", "23", "24", "25", "26", "27",
     "28", "29", "30", "31"}

\* Faulty variant: only the loopback name is refused.
isPrivateHostnameMutant(hostname) == hostname = <<"localhost">>

\* isPrivateHostname (part_000:256-265).  startsWith("10.") holds of a host
\* whose first label is "10" and that has a second one, and so on.
isPrivateHostname(hostname) ==
    LET host == [i \in DOMAIN hostname |-> ToLowerCase(hostname[i])]
    IN  \/ host = <<"localhost">>
        \/ Len(host) >= 2 /\ host[Len(host)] = "local"
        \/ host = <<"0", "0", "0", "0">>
        \/ Len(host) >= 2 /\ host[1] = "127"
        \/ Len(host) >= 2 /\ host[1] = "10"
        \/ Len(host) >= 3 /\ host[1] = "192" /\ host[2] = "168"
        \/ Len(host) >= 3 /\ host[1] = "172" /\ host[2] \in PrivateSecondLabels

\* NextResponse.json({ error }, { status }) and NextResponse.json(result).
ErrorResponse(status, error) == [status |-> status, error |-> error]
ExtractResult == [status |-> 200, error |-> ""]

\* A request being handled: fetches are the hosts a GET went to.
Handling(url, pc, fetches, response) ==
    [pc |-> pc, url |-> url, fetches |-> fetches, response |-> response]

InitUrlExtract ==
    /\ PageIdle
    /\ NoBootstrap
    /\ NoSignup
    /\ call = NoCall
    /\ urlExtract = NoRequest

\* POST up to the fetch (part_000:296-319): the request is refused, or the
\* GET is issued.
UrlExtractPOST ==
    \E url \in RequestUrls :
        /\ urlExtract.pc = "idle"
        /\ urlExtract' =
              IF url.kind = "blank"
              THEN Handling(url, "done", {}, ErrorResponse(400, "url is required"))
              ELSE IF url.kind = "malformed"
              THEN Handling(url, "done", {}, ErrorResponse(500, "extract failed"))
              ELSE IF url.protocol \notin {"http:", "https:"}
              THEN Handling(url, "done", {}, ErrorResponse(400, "http/https only"))
              ELSE IF isPrivateHostname(Hostname(url))
              THEN Handling(url, "done", {},
                            ErrorResponse(400, "private host is not allowed"))
              ELSE Handling(url, "fetching", {Hostname(url)}, ExtractResult)
        /\ UNCHANGED <<db, page, flags, procs, busy, user, signup, call,
                       organizations, members, bootstrap>>

\* redirect: "follow" (part_000:314): the server answers with a redirect,
\* and the fetch goes on to the host it names.
FetchRedirected ==
    \E host \in UrlHosts :
        /\ urlExtract.pc = "fetching"
        /\ Cardinality(urlExtract.fetches) <= MaxRedirects
        /\ Hostname([host |-> host]) \notin urlExtract.fetches
        /\ urlExtract' =
              [urlExtract EXCEPT !.fetches = @ \cup {Hostname([host |-> host])}]
        /\ UNCHANGED <<db, page, flags, procs, busy, user, signup, call,
                       organizations, members, bootstrap>>

\* The fetch settles (part_000:320-338): an HTML page, a non-2xx status,
\* another content type, or a rejection.
FetchOutcomes == {"html", "non-2xx", "not-html", "rejects"}
FetchSettled ==
    \E outcome \in FetchOutcomes :
        /\ urlExtract.pc = "fetching"
        /\ urlExtract' =
              [urlExtract EXCEPT
                  !.pc = "done",
                  !.response =
                      CASE outcome = "html" -> ExtractResult
                        [] outcome = "non-2xx" -> ErrorResponse(400, "fetch failed")
                        [] outcome = "not-html" -> ErrorResponse(400, "html page only")
                        [] OTHER -> ErrorResponse(500, "extract failed")]
        /\ UNCHANGED <<db, page, flags, procs, busy, user, signup, call,
                       organizations, members, bootstrap>>

UrlExtractNext ==
    \/ UrlExtractPOST
    \/ FetchRedirected
    \/ FetchSettled

SpecUrlExtract == InitUrlExtract /\ [][UrlExtractNext]_vars

\* The text normalizer.  A string is the sequence of its characters, taken
\* from: a Latin letter, a Han/Hiragana/Katakana character, a half-width
\* Katakana character (NFKC turns it into the full-width one), a space, a
\* line feed, and an ideographic space (NFKC turns it into a space).
MaxChars == 4        \* characters of a text that is normalized

Chars == {"a", "k", "h", " ", "n", "w"}

\* value.normalize("NFKC"), character by character.
NFKC(value) ==
    [i \in DOMAIN value |->
        CASE value[i] = "h" -> "k"
          [] value[i] = "w" -> " "
          [] OTHER -> value[i]]

\* \s, and [\p{Script=Han}\p{Script=Hiragana}\p{Script=Katakana}].
IsSpace(c) == c \in {" ", "n", "w"}
IsCJK(c) == c \in {"k", "h"}

\* The characters of value at the given positions, in order.
AtPositions(value, positions) == [k \in DOMAIN positions |-> value[positions[k]]]

\* The nearest position before / after i that holds no whitespace (0 and
\* Len + 1 if there is none).
Before(value, i) ==
    IF \E j \in 1..(i - 1) : ~IsSpace(value[j])
    THEN CHOOSE j \in 1..(i - 1) :
             ~IsSpace(value[j]) /\ \A m \in (j + 1)..(i - 1) : IsSpace(value[m])
    ELSE 0
After(value, i) ==
    IF \E j \in (i + 1)..Len(value) : ~IsSpace(value[j])
    THEN CHOOSE j \in (i + 1)..Len(value) :
             ~IsSpace(value[j]) /\ \A m \in (i + 1)..(j - 1) : IsSpace(value[m])
    ELSE Len(value) + 1

\* Faulty variant: the whitespace between CJK characters stays.
RemoveCjkGapsMutant(value) == value

\* .replace(/(?<=[CJK])\s+(?=[CJK])/gu, ""): every run of whitespace that
\* has a CJK character right before it and right after it goes.
RemoveCjkGaps(value) ==
    AtPositions(value,
        SelectSeq([i \in DOMAIN value |-> i],
                  LAMBDA i :
                      ~(/\ IsSpace(value[i])
                        /\ Before(value, i) >= 1
                        /\ After(value, i) <= Len(value)
                        /\ IsCJK(value[Before(value, i)])
                        /\ IsCJK(value[After(value, i)]))))

\* .replace(/\s+/g, " "): every run of whitespace becomes one space.
CollapseSpaces(value) ==
    LET first == SelectSeq([i \in DOMAIN value |-> i],
                           LAMBDA i : \/ ~IsSpace(value[i])
                                      \/ i = 1
                                      \/ ~IsSpace(value[i - 1]))
    IN  [k \in DOMAIN first |->
            IF IsSpace(value[first[k]]) THEN " " ELSE value[first[k]]]

\* .trim()
TrimSpaces(value) ==
    IF \A i \in DOMAIN value : IsSpace(value[i]) THEN << >>
    ELSE SubSeq(value, After(value, 0), Before(value, Len(value) + 1))

\* sanitizeExtractedText (page.tsx:98-107).
sanitizeExtractedText(value) ==
    LET normalized == NFKC(value)
    IN  TrimSpaces(CollapseSpaces(RemoveCjkGaps(normalized)))

\* sanitizeText (pdf-analyze/route.ts:14-23).
sanitizeText(value) ==
    TrimSpaces(CollapseSpaces(RemoveCjkGaps(NFKC(value))))

Normalizers == {"sanitizeExtractedText", "sanitizeText"}
Normalize(fn, value) ==
    IF fn = "sanitizeText" THEN sanitizeText(value)
    ELSE sanitizeExtractedText(value)

InitNormalize ==
    /\ PageIdle
    /\ NoBootstrap
    /\ NoSignup
    /\ urlExtract = NoRequest
    /\ \E fn \in Normalizers, value \in SeqsUpTo(Chars, MaxChars) :
           call = [fn |-> fn, value |-> value, applied |-> 0,
                   once |-> << >>, twice |-> << >>]

\* The normalizer returns for the text.
Normalized ==
    /\ call.fn \in Normalizers
    /\ call.applied = 0
    /\ call' = [call EXCEPT !.applied = 1,
                            !.once = Normalize(call.fn, call.value)]
    /\ UNCHANGED <<db, page, flags, procs, busy, user, signup, urlExtract,
                   organizations, members, bootstrap>>

\* The normalizer returns for its own result.
NormalizedAgain ==
    /\ call.fn \in Normalizers
    /\ call.applied = 1
    /\ call' = [call EXCEPT !.applied = 2,
                            !.twice = Normalize(call.fn, call.once)]
    /\ UNCHANGED <<db, page, flags, procs, busy, user, signup, urlExtract,
                   organizations, members, bootstrap>>

NormalizeNext ==
    \/ Normalized
    \/ NormalizedAgain

SpecNormalize == InitNormalize /\ [][NormalizeNext]_vars

\* The organization bootstrap utility (part_000:58-123), run by an operator
\* up to MaxRuns times, the runs possibly overlapping.
MaxRuns == 2         \* runs of the bootstrap utility

\* Number(args.seatLimit ?? "10") (part_000:69).
DefaultSeatLimit == 10

\* The command lines: "" is an argument that is not given.
BootstrapArgs ==
    [orgId : {"acme"}, ownerUid : {"u1", "u2"},
     ownerEmail : {"", "owner@acme"}, ownerName : {"Owner"},
     seatLimit : {"", "5", "0", "many"}, orgName : {"", "Acme Inc"}]

\* Number(text) on the seat limits that occur.
NumberOf(text) ==
    CASE text = "5" -> 5
      [] text = "0" -> 0
      [] OTHER -> NotANumber

seatLimitOf(args) ==
    IF args.seatLimit = "" THEN DefaultSeatLimit ELSE NumberOf(args.seatLimit)

\* main throws before it reaches the database (part_000:65-74): a required
\* argument is missing, or the seat limit is not a positive integer.
ThrowsOnArgs(args) ==
    \/ args.orgId = ""
    \/ args.ownerUid = ""
    \/ args.ownerEmail = ""
    \/ args.ownerName = ""
    \/ seatLimitOf(args) <= 0

\* The documents of a collection are [path, data], data being the fields.
\* Faulty variant: the write adds a document whatever the collection holds.
SetMergeMutant(coll, path, data) == coll \cup {[path |-> path, data |-> data]}

\* tx.set(ref, data, { merge: true }): the fields given replace those of
\* the document at the path, its other fields stay; a missing document is
\* created.
SetMerge(coll, path, data) ==
    LET old == { d \in coll : d.path = path }
        merged(d) == [f \in DOMAIN d.data \cup DOMAIN data |->
                         IF f \in DOMAIN data THEN data[f] ELSE d.data[f]]
    IN  IF old = {}
        THEN coll \cup {[path |-> path, data |-> data]}
        ELSE (coll \ old) \cup { [path |-> path, data |-> merged(d)] : d \in old }

\* The two writes of the transaction (part_000:94-117); now is the server
\* timestamp of the commit.
OrgData(args, now) ==
    [name |-> IF args.orgName = "" THEN args.orgId ELSE args.orgName,
     ownerId |-> args.ownerUid, seatLimit |-> seatLimitOf(args),
     createdAt |-> now, updatedAt |-> now]
MemberData(args, now) ==
    [uid |-> args.ownerUid, email |-> args.ownerEmail,
     displayName |-> args.ownerName, role |-> "owner",
     createdAt |-> now, updatedAt |-> now]
MemberPath(args) == <<args.orgId, args.ownerUid>>

\* The server time: one tick per commit.
ServerTime == 1 + Cardinality({ r \in DOMAIN bootstrap : bootstrap[r].pc = "done" })

InitBootstrap ==
    /\ PageIdle
    /\ NoBootstrap
    /\ NoSignup
    /\ call = NoCall
    /\ urlExtract = NoRequest

\* main up to runTransaction (part_000:58-91).
BootstrapMain ==
    \E args \in BootstrapArgs :
        /\ Len(bootstrap) < MaxRuns
        /\ bootstrap' = Append(bootstrap,
              [args |-> args, committedAt |-> 0,
               pc |-> IF ThrowsOnArgs(args) THEN "exit-1" ELSE "transaction"])
        /\ UNCHANGED <<db, page, flags, procs, busy, user, signup, call, urlExtract,
                       organizations, members>>

\* The transaction commits: both writes, at one server time.
TransactionCommitted ==
    \E r \in DOMAIN bootstrap :
        LET args == bootstrap[r].args
        IN  /\ bootstrap[r].pc = "transaction"
            /\ organizations' =
                   SetMerge(organizations, args.orgId, OrgData(args, ServerTime))
            /\ members' =
                   SetMerge(members, MemberPath(args), MemberData(args, ServerTime))
            /\ bootstrap' = [bootstrap EXCEPT ![r].pc = "done",
                                              ![r].committedAt = ServerTime]
            /\ UNCHANGED <<db, page, flags, procs, busy, user, signup, call, urlExtract>>

\* The transaction fails (the database rejects it, or cannot be reached):
\* neither write is applied, main's catch prints the error and exits.
TransactionFailed ==
    \E r \in DOMAIN bootstrap :
        /\ bootstrap[r].pc = "transaction"
        /\ bootstrap' = [bootstrap EXCEPT ![r].pc = "exit-1"]
        /\ UNCHANGED <<db, page, flags, procs, busy, user, signup, call, urlExtract,
                       organizations, members>>

BootstrapNext ==
    \/ BootstrapMain
    \/ TransactionCommitted
    \/ TransactionFailed

SpecBootstrap == InitBootstrap /\ [][BootstrapNext]_vars

\* --- the chats snapshot callback (page.tsx:573-596)
MaxSnapshot == 3     \* threads of a delivered snapshot
MaxTime == 2         \* timestamps 1..MaxTime; Null is a missing timestamp

\* The documents of a snapshot, in the order the query delivers them: each
\* with its id and its updatedAt and createdAt, either of which may be
\* missing (a server timestamp that is still pending, an older record).
SnapshotDocs ==
    UNION { [1..k -> [updatedAt : 0..MaxTime, createdAt : 0..MaxTime]] :
            k \in 0..MaxSnapshot }

\* The sort key of the callback (page.tsx:585-586):
\* updatedAt?.getTime() ?? createdAt?.getTime() ?? 0.
ThreadTime(thread) ==
    IF thread.updatedAt # Null THEN thread.updatedAt
    ELSE IF thread.createdAt # Null THEN thread.createdAt
    ELSE 0

\* Array.prototype.sort with the comparator bTime - aTime (page.tsx:584-588):
\* descending by time, threads of equal time in their order of delivery.
RECURSIVE SortByTimeDesc(_)
SortByTimeDesc(threads) ==
    IF threads = << >> THEN << >>
    ELSE LET first == CHOOSE i \in DOMAIN threads :
                          /\ \A j \in DOMAIN threads :
                                 ThreadTime(threads[j]) <= ThreadTime(threads[i])
                          /\ \A j \in 1..(i - 1) :
                                 ThreadTime(threads[j]) < ThreadTime(threads[i])
         IN  <<threads[first]>> \o
             SortByTimeDesc(SubSeq(threads, 1, first - 1) \o
                            SubSeq(threads, first + 1, Len(threads)))

\* snapshot.docs.map(...) (page.tsx:576-583).
SnapshotThreads(docs) ==
    [i \in DOMAIN docs |->
        [id |-> i, updatedAt |-> docs[i].updatedAt, createdAt |-> docs[i].createdAt]]

\* A snapshot is delivered while the thread prev is selected; prev may be
\* a thread that is not in the snapshot.
InitChats ==
    /\ PageIdle
    /\ NoBootstrap
    /\ NoSignup
    /\ urlExtract = NoRequest
    /\ \E docs \in SnapshotDocs, prev \in 0..(MaxSnapshot + 1) :
           call = [fn |-> "chatsSnapshot", docs |-> docs, prev |-> prev,
                   done |-> FALSE, next |-> << >>, selected |-> Null]

\* The snapshot callback runs (page.tsx:575-594).
ChatsCallback ==
    /\ call.fn = "chatsSnapshot"
    /\ ~call.done
    /\ LET next == SortByTimeDesc(SnapshotThreads(call.docs))
       IN  call' = [call EXCEPT
               !.done = TRUE,
               !.next = next,
               !.selected = NextSelectedChatId(call.prev,
                                [i \in DOMAIN next |-> next[i].id])]
    /\ UNCHANGED <<db, page, flags, procs, busy, user, signup, urlExtract,
                   organizations, members, bootstrap>>

ChatsNext == ChatsCallback

SpecChats == InitChats /\ [][ChatsNext]_vars

\* --- the signup page (part_001: SignupPage.onSubmit)
MaxSignups == 3      \* signups submitted, possibly at the same time
MaxSeats == 2        \* seat limits of the company that exists already
DEFAULT_SEAT_LIMIT == 10

CompanyNames == {"acme", "nova"}
ExistingCompanies ==
    { [id |-> 1, name |-> "acme", seatLimit |-> l, seatsUsed |-> u] :
          l \in 0..MaxSeats, u \in 0..MaxSeats }

\* Number(data.seatLimit ?? DEFAULT_SEAT_LIMIT) (part_001:72).
SeatLimitOf(data) ==
    IF data.seatLimit = Null THEN DEFAULT_SEAT_LIMIT ELSE data.seatLimit

IdleSignup == [pc |-> "idle", companyName |-> "", companyId |-> Null, role |-> "member"]

\* The companies collection holds one company, within its seat limit, and
\* nobody has submitted the form.
InitSignup ==
    /\ PageIdle
    /\ NoBootstrap
    /\ call = NoCall
    /\ urlExtract = NoRequest
    /\ \E c \in ExistingCompanies :
           /\ c.seatsUsed <= SeatLimitOf(c)
           /\ companies = {c}
    /\ profiles = {}
    /\ signups = [i \in 1..MaxSignups |-> IdleSignup]

\* onSubmit up to getDocs (part_001:35-53): the account is created, or
\* createUserWithEmailAndPassword rejects.
onSubmit ==
    \E i \in DOMAIN signups, name \in CompanyNames, created \in BOOLEAN :
        /\ signups[i].pc = "idle"
        /\ signups' = [signups EXCEPT ![i] =
               IF created THEN [@ EXCEPT !.pc = "query", !.companyName = name]
               ELSE [@ EXCEPT !.pc = "failed"]]
        /\ UNCHANGED <<db, page, flags, procs, busy, user, call, urlExtract,
                       organizations, members, bootstrap, companies, profiles>>

\* The seat test (part_001:72-77).
SeatsExhausted(data) == data.seatsUsed >= SeatLimitOf(data)

\* getDocs resolves (part_001:51-79): no company of that name, a company
\* with no seat left (the handler throws), or a company to join.
CompanyQueried ==
    \E i \in DOMAIN signups :
        LET hits == { c \in companies : c.name = signups[i].companyName }
            existingCompany == CHOOSE c \in hits : \A o \in hits : c.id <= o.id
        IN  /\ signups[i].pc = "query"
            /\ signups' = [signups EXCEPT ![i] =
                   IF hits = {} THEN [@ EXCEPT !.pc = "add", !.role = "owner"]
                   ELSE IF SeatsExhausted(existingCompany)
                   THEN [@ EXCEPT !.pc = "refused"]
                   ELSE [@ EXCEPT !.pc = "increment",
                                  !.companyId = existingCompany.id]]
            /\ UNCHANGED <<db, page, flags, procs, busy, user, call, urlExtract,
                           organizations, members, bootstrap, companies, profiles>>

\* addDoc of the company settles (part_001:59-68).
CompanyAdded ==
    \E i \in DOMAIN signups, accepted \in BOOLEAN :
        LET id == Cardinality(companies) + 1
        IN  /\ signups[i].pc = "add"
            /\ IF accepted
               THEN /\ companies' = companies \cup
                           {[id |-> id, name |-> signups[i].companyName,
                             seatLimit |-> DEFAULT_SEAT_LIMIT, seatsUsed |-> 1]}
                    /\ signups' = [signups EXCEPT ![i].pc = "profile",
                                                  ![i].companyId = id]
               ELSE /\ signups' = [signups EXCEPT ![i].pc = "failed"]
                    /\ UNCHANGED companies
            /\ UNCHANGED <<db, page, flags, procs, busy, user, call, urlExtract,
                           organizations, members, bootstrap, profiles>>

\* updateDoc with seatsUsed: increment(1) settles (part_001:80-83).
SeatIncremented ==
    \E i \in DOMAIN signups, accepted \in BOOLEAN :
        /\ signups[i].pc = "increment"
        /\ IF accepted
           THEN /\ companies' =
                       { IF c.id = signups[i].companyId
                         THEN [c EXCEPT !.seatsUsed = @ + 1] ELSE c : c \in companies }
                /\ signups' = [signups EXCEPT ![i].pc = "profile"]
           ELSE /\ signups' = [signups EXCEPT ![i].pc = "failed"]
                /\ UNCHANGED companies
        /\ UNCHANGED <<db, page, flags, procs, busy, user, call, urlExtract,
                       organizations, members, bootstrap, profiles>>

\* setDoc of users/{uid} settles (part_001:86-97).
ProfileWritten ==
    \E i \in DOMAIN signups, accepted \in BOOLEAN :
        /\ signups[i].pc = "profile"
        /\ IF accepted
           THEN /\ profiles' = profiles \cup
                       {[uid |-> i, companyId |-> signups[i].companyId,
                         role |-> signups[i].role]}
                /\ signups' = [signups EXCEPT ![i].pc = "done"]
           ELSE /\ signups' = [signups EXCEPT ![i].pc = "failed"]
                /\ UNCHANGED profiles
        /\ UNCHANGED <<db, page, flags, procs, busy, user, call, urlExtract,
                       organizations, members, bootstrap, companies>>

SignupNext ==
    \/ onSubmit
    \/ CompanyQueried
    \/ CompanyAdded
    \/ SeatIncremented
    \/ ProfileWritten

SpecSignup == InitSignup /\ [][SignupNext]_vars

\* ------------------------------------------------------------------ claims
WriteKinds == {"ask", "upload", "text", "url"}
ThreadIds(cs) == { cs[i].id : i \in DOMAIN cs }
\* The collection handleDeleteSource in flight deletes its record from.
DeleteCollection ==
    IF deleting.activeChat.type = "team" THEN deleting.selectedChatId ELSE Null

\* When the blob of a Source is to be deleted with it, as specified.
BlobDeleteExpected(source, ac) ==
    /\ source.storagePath # Null
    /\ \/ ac.type = "personal"
       \/ ac.type = "team" /\ source.inheritedFromDocumentId = Null

\* C1: a confirmed handleDeleteSource issues a blob delete if and only if the
\* Source has a storage path and the scope is personal or the Source is a
\* team Source that was not inherited; a blob leaves the store only by such a
\* delete, of that Source's path; and while an inherited copy is being
\* deleted no blob leaves the store.
C1_BlobDeleteIffOwned ==
    [][ /\ (deleting.pc = "idle" /\ deleting'.pc # "idle") =>
            /\ deleting'.activeChat = activeChat
            /\ deleting'.source[1] \in sources
            /\ (deleting'.pc = "blob")
                   <=> BlobDeleteExpected(deleting'.source[1], activeChat)
        /\ ~(storage \subseteq storage') =>
            /\ deleting.pc = "blob"
            /\ BlobDeleteExpected(deleting.source[1], deleting.activeChat)
            /\ storage' = storage \ {deleting.source[1].storagePath}
        /\ (deleting.pc # "idle"
              /\ deleting.source[1].inheritedFromDocumentId # Null) =>
            storage \subseteq storage'
      ]_vars

\* The delete of an inherited team copy that has a storage path has gone on
\* to the record without a blob delete, and the blob is still stored.
C1_Witness ==
    /\ deleting.pc = "doc"
    /\ deleting.activeChat.type = "team"
    /\ deleting.source[1].inheritedFromDocumentId # Null
    /\ deleting.source[1].storagePath \in storage

C3_CopyIsPointInTime ==
    [][ \A d \in documents :
            d \notin documents' =>
                /\ deleting.pc = "doc"
                /\ deleting.source[1].id = d.id
                /\ DeleteCollection = d.coll
      ]_vars

\* An inherited copy is stored whose personal original has been deleted,
\* beside a personal Source added after the copy was made.
C3_Witness ==
    \E c \in documents :
        /\ c.inheritedFromDocumentId # Null
        /\ \A o \in documents : o.id # c.inheritedFromDocumentId
        /\ \E p \in documents :
               p.coll = Null /\ p.inheritedFromDocumentId = Null /\ p.id > c.id

C6_ScopeSwitchClearsSelection ==
    [][ (activeChat' # activeChat /\ teams' = teams) => selectedChatId' = Null
      ]_vars

\* The scope is a team and no thread is selected, while the thread list
\* still shows the personal threads of the scope the user came from.
C6_Witness ==
    /\ activeChat.type = "team"
    /\ selectedChatId = Null
    /\ chatThreads # << >>
    /\ \A i \in DOMAIN chats :
           chats[i].id \in Range(chatThreads) => chats[i].scopeType = "personal"

\* C7: in no state is the active scope a team that the team list lacks: the
\* step that takes the active team off the list makes the scope personal.
C7_RemovedTeamRevertsScope ==
    [][ /\ activeChat'.type = "team" => activeChat'.teamId \in teams'
        /\ (activeChat.type = "team" /\ activeChat.teamId \notin teams') =>
            activeChat' = Personal
      ]_vars

\* The inherit dialog, which opens in team scope only and blocks the scope
\* buttons, is open in personal scope: the team left the list under it.
C7_Witness ==
    /\ showTeamChatModal
    /\ activeChat = Personal
    /\ teams = {}

\* The chat calls that fail as the claim lists them, and the texts the chat
\* route answers with when it could not get an answer.
FailedCalls ==
    {"unreachable", "upstream-non2xx", "no-credential", "unparseable"}
RemoteFailureTexts == {NoCredentialText, RouteFailedText, RouteNoAnswerText}

\* C8: when the chat call of a question fails (unreachable, upstream non-2xx,
\* missing credential, unparseable payload) the assistant message stored for
\* it is buildAssistantReply's output, and no text of a remote failure is
\* ever stored.
C8_FailureYieldsLocalFallback ==
    /\ \A s \in Slots :
           (/\ writers[s].kind = "ask"
            /\ writers[s].pc \in {"assistant", "update"}
            /\ writers[s].outcome \in FailedCalls) =>
               writers[s].reply = buildAssistantReply(writers[s].question,
                                                      writers[s].targetSources)
    /\ \A c \in ChatIds : \A i \in DOMAIN messages[c] :
           messages[c][i].text \notin RemoteFailureTexts

\* C9: an ask whose candidate Sources are none issues no chat call and
\* stores the fixed upload-first message.
C9_EmptyCandidatesNoCall ==
    \A s \in Slots :
        (writers[s].kind = "ask" /\ writers[s].targetSources = << >>) =>
            /\ writers[s].pc # "api"
            /\ writers[s].outcome = ""
            /\ writers[s].pc \in {"assistant", "update"} =>
                   writers[s].reply = UploadFirstText

\* The thread c holds a non-empty assistant message of write action n.
HasAnswer(c, n) ==
    \E i \in DOMAIN messages[c] :
        /\ messages[c][i].sender = "assistant"
        /\ messages[c][i].by = n
        /\ messages[c][i].text # EmptyText

\* C10: every ask that passed its guards leads to a non-empty assistant
\* message of that ask in its target thread, whatever the chat call does,
\* when the database accepts the writes.
C10_AskGetsAnswer ==
    \A s \in Slots : \A n \in 1..MaxWrites :
        (writers[s].kind = "ask" /\ writers[s].n = n)
            ~> (/\ writers[s].kind = "ask"
                /\ writers[s].n = n
                /\ writers[s].pc = "update"
                /\ writers[s].activeId \in ThreadIds(chats)
                /\ HasAnswer(writers[s].activeId, n))

\* An ask whose chat call was unreachable has its assistant message stored.
C10_Witness ==
    \E s \in Slots :
        /\ writers[s].kind = "ask"
        /\ writers[s].pc = "update"
        /\ writers[s].outcome = "unreachable"
        /\ HasAnswer(writers[s].activeId, writers[s].n)

\* The assistant message an ask appends to thread c in this step, as a
\* one-element set (empty when the step appends none).
AskAppends(c) ==
    IF Len(messages'[c]) = Len(messages[c]) + 1
    THEN { m \in {messages'[c][Len(messages'[c])]} :
             /\ m.sender = "assistant"
             /\ \E s \in Slots : writers[s].kind = "ask" /\ writers[s].n = m.by }
    ELSE {}
\* The user message of write action n is stored in thread c.
HasQuestion(c, n) ==
    \E i \in DOMAIN messages[c] :
        messages[c][i].sender = "user" /\ messages[c][i].by = n

\* C11 (as stated): every assistant message an ask writes, the reply or the
\* failure notice, is written when the user message of that ask is already
\* stored in the thread.
C11_AssistantAfterQuestion ==
    [][ \A c \in ChatIds : \A m \in AskAppends(c) : HasQuestion(c, m.by) ]_vars

\* C11 (amended): the reply of an ask is written when the user message of
\* that ask is already stored in the thread; the failure notice is written
\* by the catch block only, after a write of that ask was rejected, which
\* can be the write of the user message itself.
C11_ReplyAfterQuestion ==
    [][ \A c \in ChatIds : \A m \in AskAppends(c) :
            IF m.text = AskFailedText
            THEN \E s \in Slots : /\ writers[s].n = m.by
                                  /\ writers[s].pc = "notice"
                                  /\ writers[s].activeId = c
            ELSE /\ HasQuestion(c, m.by)
                 /\ \E s \in Slots : /\ writers[s].n = m.by
                                      /\ writers[s].pc = "assistant"
                                      /\ writers[s].activeId = c
                                      /\ m.text = writers[s].reply
      ]_vars

\* The reply of an ask is stored after its question in the thread.
C11_Witness ==
    \E c \in ChatIds : \E i, j \in DOMAIN messages[c] :
        /\ i < j
        /\ messages[c][i].sender = "user"
        /\ messages[c][j].sender = "assistant"
        /\ messages[c][j].by = messages[c][i].by
        /\ messages[c][j].by # 0
        /\ messages[c][j].text # AskFailedText

\* Write action s adds a Message or a Source in this step.
AddsToThread(s) ==
    /\ writers[s].pc # "idle"
    /\ writers'[s] # writers[s]
    /\ \/ writers[s].pc = "source" /\ documents' # documents
       \/ \E c \in ChatIds :
              /\ Len(messages'[c]) = Len(messages[c]) + 1
              /\ messages'[c][Len(messages'[c])].by = writers[s].n
\* The positions of a write action from which the updateDoc of its thread
\* is still ahead on the path of accepted writes.
BumpAhead == {"message", "api", "assistant", "update"}

\* C16: every Message or Source a write action adds to its thread, the
\* failure notice of an ask included, is followed by the bump of the
\* thread's updatedAt: the step that adds it leaves the action on the way
\* to the updateDoc of that thread.
C16_AdditionThenBump ==
    [][ \A s \in Slots : AddsToThread(s) => writers'[s].pc \in BumpAhead ]_vars

\* C19: handleDeleteSource changes nothing unless the user confirms: a step
\* in which the confirm dialog is declined leaves the store, the page, the
\* indicators and every handler in flight as they were, and a delete only
\* starts in a step in which the dialog was not declined.
C19_DeclinedDeleteChangesNothing ==
    [][ /\ declined' # declined =>
              UNCHANGED <<db, page, flags, procs, busy, budget>>
        /\ (deleting.pc = "idle" /\ deleting'.pc # "idle") =>
              declined' = declined
      ]_vars

\* The user declined a delete and the Sources are all still stored, while
\* another delete of theirs, confirmed, is past its start.
C19_Witness ==
    /\ declined
    /\ deleting.pc # "idle"
    /\ nextDoc - 1 = Cardinality({ d.id : d \in documents })

\* handleDeleteSource finishes in this step.
DeleteFinishes == deleting.pc # "idle" /\ deleting'.pc = "idle"
\* The delete that finishes in this step failed: the deleteObject was
\* rejected, or the deleteDoc was and the record is still stored.
DeleteFailed ==
    \/ deleting.pc = "blob"
    \/ /\ deleting.pc = "doc"
       /\ \E d \in documents' : /\ d.id = deleting.source[1].id
                                 /\ d.coll = DeleteCollection

\* C20: when handleDeleteSource finishes the deleting indicator is reset; a
\* failed delete leaves the pinned selection as it was; the handler clears
\* the pinned selection only when the delete succeeded and the deleted
\* Source is the pinned one.
C20_DeleteFailureKeepsSelection ==
    [][ DeleteFinishes =>
          /\ deletingSourceId' = Null
          /\ DeleteFailed => selectedKnowledge' = selectedKnowledge
          /\ selectedKnowledge' # selectedKnowledge =>
                /\ ~DeleteFailed
                /\ selectedKnowledge = deleting.source[1].id
      ]_vars

\* The part of C20 about failures alone: a failed delete ends the handler,
\* resets the indicator and leaves the pinned selection.
DeleteFailureHandled ==
    [][ (DeleteFinishes /\ DeleteFailed) =>
          /\ deletingSourceId' = Null
          /\ deleting' = IdleDeleting
          /\ UNCHANGED <<db, page>>
      ]_vars

\* Write action s, an ingestion, ends in this step.
IngestEnds(s) ==
    /\ writers[s].kind \in IngestKinds
    /\ writers'[s] = IdleWriter

\* C12: once extraction has succeeded the analysis never fails the
\* ingestion, whatever happens to the analysis call: the step in which
\* the call settles leaves the ingestion with a summary and a plan list, on
\* its way to write the Source.
C12_AnalysisNeverFailsUpload ==
    [][ \A s \in Slots :
          (writers[s].pc = "analyze" /\ writers'[s] # writers[s]) =>
              /\ writers'[s].pc \in {"blob", "source"}
              /\ writers'[s].analysis.ok
      ]_vars

\* C13: an ingestion that a validation or extraction error aborts leaves
\* the threads, Sources, messages and blobs as they were before it.
C13_AbortedIngestionWritesNothing ==
    [][ \A s \in Slots :
          ( /\ IngestEnds(s)
            /\ \/ writers[s].pc = "ensure" /\ AbortsAtOnce(writers[s])
               \/ writers[s].pc = "extract" ) =>
              /\ UNCHANGED db
              /\ writers[s].created = Null
      ]_vars

\* The part of C13 about Sources, messages and blobs alone.
AbortedIngestionKeepsSources ==
    [][ \A s \in Slots :
          ( /\ IngestEnds(s)
            /\ \/ writers[s].pc = "ensure" /\ AbortsAtOnce(writers[s])
               \/ writers[s].pc = "extract" ) =>
              /\ UNCHANGED <<documents, messages, storage>>
              /\ \A c \in ChatIds : \A i \in DOMAIN messages[c] :
                     messages[c][i].by # writers[s].n
      ]_vars

\* C17: the address of the blob is asked for only once the blob upload has
\* completed, the Source of an upload is written only once the address has
\* been read, and when the blob upload fails the handler ends with neither.
C17_BlobThenAddressThenSource ==
    [][ \A s \in Slots :
          LET w == writers[s]
          IN  /\ (w.pc # "address" /\ writers'[s].pc = "address") =>
                    (w.pc = "blob" /\ w.storagePath \in storage')
              /\ (w.kind = "upload" /\ w.pc = "source" /\ documents' # documents) =>
                    (w.downloadURL = w.storagePath /\ w.storagePath \in storage)
              /\ (w.downloadURL = Null /\ writers'[s].downloadURL # Null) =>
                    w.pc = "address"
              /\ (w.pc = "blob" /\ writers'[s].pc # "blob"
                     /\ w.storagePath \notin storage') =>
                    (writers'[s] = IdleWriter /\ UNCHANGED db)
      ]_vars

\* The Source of an upload is written, its blob stored and its address read.
C17_Witness ==
    \E s \in Slots :
        /\ writers[s].kind = "upload"
        /\ writers[s].pc = "message"
        /\ writers[s].downloadURL \in storage
        /\ \E d \in documents : d.storagePath = writers[s].downloadURL

\* C18: when an ingestion handler ends after it has set its indicators, by
\* success or by any error, uploading is false and uploadStatus is null, and
\* urlSubmitting is false when it is the URL handler; a handler that ends
\* before it sets them (no thread id, blank body) leaves them alone.
C18_IndicatorsReset ==
    [][ \A s \in Slots :
          LET w == writers[s]
              before == /\ w.pc = "ensure"
                        /\ ~(ThrowsAtOnce(w) /\ chats' # chats)
          IN  IngestEnds(s) =>
                IF before
                THEN UNCHANGED busy
                ELSE /\ uploading' = FALSE
                     /\ uploadStatus' = << >>
                     /\ w.kind = "url" => urlSubmitting' = FALSE
      ]_vars

\* An upload whose blob upload was rejected has ended: no handler is in
\* flight and the indicators are reset.
C18_Witness ==
    /\ nextPath > 1
    /\ (nextPath - 1) \notin storage
    /\ \A s \in Slots : writers[s] = IdleWriter
    /\ ~uploading
    /\ uploadStatus = << >>
    /\ ~urlSubmitting

\* C14: after the scope or the selected thread changes no snapshot of the
\* previous subscription is applied: each effect holds the listener of the
\* current scope or thread and no other; whenever the thread list, the
\* Source list or the message list changes, it changes to what the query
\* of the current scope or thread holds, or is cleared; and the selected
\* thread id changes to a thread of the list shown or to the thread just
\* created.
C14_NoStaleSnapshot ==
    [][ /\ chatsSub' = (IF authUser' THEN <<activeChat'>> ELSE << >>)
        /\ sourcesSub' = (IF authUser' /\ activeChat'.type = "team"
                          THEN selectedChatId' ELSE Null)
        /\ messagesSub' = (IF authUser' THEN selectedChatId' ELSE Null)
        /\ chatThreads' # chatThreads =>
              (chatThreads' = << >> \/ chatThreads' = ChatsQuery(activeChat'))
        /\ (selectedChatId' # selectedChatId /\ selectedChatId' # Null) =>
              \/ selectedChatId' \in Range(chatThreads')
              \/ chats' # chats /\ selectedChatId' = chats'[1].id
        /\ sources' # sources =>
              \/ sources' = {}
              \/ activeChat'.type = "personal" /\ sources' = globalSources'
              \/ activeChat'.type = "team"
                    /\ sources' = CollectionItems(selectedChatId')
        /\ messageList' # messageList =>
              \/ messageList' = << >>
              \/ selectedChatId' # Null
                    /\ messageList' = messages'[selectedChatId']
      ]_vars

\* The user went from a thread whose messages were shown to team scope: the
\* chats listener is the team's, the thread list is still the previous
\* scope's and no message is shown.
C14_Witness ==
    /\ activeChat.type = "team"
    /\ chatsSub = <<activeChat>>
    /\ chatThreads # << >>
    /\ chatThreads # ChatsQuery(activeChat)
    /\ messagesSub = Null
    /\ messageList = << >>
    /\ \E c \in ChatIds : messages[c] # << >>

\* C15: asks are not serialized or queued.  Whenever the form is not in
\* its sending state a signed-in user who can still ask can submit a
\* question, whatever asks are in flight.
C15_AsksNotSerialized ==
    ( /\ authUser
      /\ ~showTeamChatModal
      /\ ~sending
      /\ started < budget
      /\ selectedChatId # Null \/ (CreateStarts(activeChat) /\ ChatLeft) )
    => ENABLED handleAsk

\* Two asks of one thread whose replies were written out of question
\* order: the later question was submitted while the earlier one was
\* awaiting its reply, and got its reply first.
C15_Witness ==
    \E c \in ChatIds : \E i, j, k, l \in DOMAIN messages[c] :
        /\ i < j /\ j < k /\ k < l
        /\ messages[c][i].sender = "user"
        /\ messages[c][j].sender = "user"
        /\ messages[c][k].sender = "assistant"
        /\ messages[c][l].sender = "assistant"
        /\ messages[c][i].by < messages[c][j].by
        /\ messages[c][k].by = messages[c][j].by
        /\ messages[c][l].by = messages[c][i].by
\* ---------------------------------------------------------------------------
\* No two entries of a plan list have the same name and the same price.
NoDuplicatePlans(plans) ==
    \A i, j \in DOMAIN plans :
        (/\ plans[i].name = plans[j].name
         /\ plans[i].priceMonthlyYen = plans[j].priceMonthlyYen) => i = j

\* C21: in every plan list the system retains (here: the one analyze
\* returns, on the hosted-model path and on the regex-fallback path) no two
\* entries share both the same name and the same price, an absent price
\* counting as one value.
C21_RetainedPlansAreDistinct ==
    (call.fn = "analyzePdfText" /\ call.done /\ call.result.ok)
        => NoDuplicatePlans(call.result.plans)

\* C22: the plan list analyze returns never has more than 8 entries, on the
\* hosted-model path as well as on the regex-fallback path.
C22_AtMostEightPlans ==
    (call.fn = "analyzePdfText" /\ call.done /\ call.result.ok)
        => Len(call.result.plans) <= MaxPlans

\* ---------------------------------------------------------------------------
\* buildAssistantReply has returned for a non-empty candidate list.
ReplyDone ==
    call.fn = "buildAssistantReply" /\ call.done /\ call.sources # << >>

\* The question matches the price-intent pattern.
AsksForPrice == \E w \in Range(call.question) : w \in PriceIntentWords

\* Some candidate has a stored plan.
SomeStoredPlan == \E k \in DOMAIN call.sources : call.sources[k].pricingPlans # << >>

\* Some candidate's text has a price-shaped substring.
SomePriceInText ==
    \E k \in DOMAIN call.sources :
        \E w \in Range(call.sources[k].text) : w \in PriceShapedWords

\* C23: in the local fallback for a price-intent question the answer is built
\* from the stored pricingPlans whenever at least one candidate has a plan;
\* the price-regex scan of the text is reached only when pricingPlans is
\* empty on all candidates.
C23_StoredPlansBeforeTextScan ==
    (ReplyDone /\ AsksForPrice) =>
        /\ SomeStoredPlan =>
              /\ call.result.kind = "price"
              /\ call.result.words = << >>
              /\ call.result.plans # << >>
              /\ \A p \in Range(call.result.plans) :
                     \E k \in DOMAIN call.sources :
                         p \in Range(call.sources[k].pricingPlans)
        /\ (call.result.kind = "price" /\ call.result.words # << >>)
              => ~SomeStoredPlan

\* A price question with a plan stored on one candidate and a price in the
\* text of another has been answered.
C23_Witness ==
    /\ ReplyDone
    /\ AsksForPrice
    /\ Len(call.sources) = 2
    /\ call.sources[1].pricingPlans = << >>
    /\ "3000yen/month" \in Range(call.sources[1].text)
    /\ call.sources[2].pricingPlans # << >>
    /\ call.result.plans # << >>

\* The number of tokens of the question found in a text.
Overlap(text) ==
    Cardinality({ i \in DOMAIN call.question : call.question[i] \in Range(text) })

\* The candidates with a non-empty text whose overlap no other such
\* candidate exceeds.
Leaders ==
    { k \in DOMAIN call.sources :
        /\ call.sources[k].text # << >>
        /\ \A j \in DOMAIN call.sources :
               call.sources[j].text # << >>
                   => Overlap(call.sources[j].text) <= Overlap(call.sources[k].text) }

FirstLeader == CHOOSE k \in Leaders : \A j \in Leaders : k <= j

\* The reply comes from the general branch.
GeneralBranch == ReplyDone /\ call.result.kind \notin {"price", "upload-first"}

\* C24: in the general branch, when several candidates have the same highest
\* token-overlap score, the one earliest in the candidate list is selected.
C24_EarliestWinsTie ==
    (GeneralBranch /\ Cardinality(Leaders) > 1) =>
        /\ call.result.kind \in {"summary", "snippet"}
        /\ call.result.name = call.sources[FirstLeader].name

\* Two candidates after the first share the highest, non-zero score and the
\* reply quotes the earlier of them.
C24_Witness ==
    /\ GeneralBranch
    /\ Leaders = {2, 3}
    /\ Overlap(call.sources[2].text) > 0
    /\ call.result.kind = "snippet"
    /\ call.result.name = call.sources[2].name

\* C28: in the general branch the fixed 'no usable text found' message is
\* returned exactly when no candidate has a non-empty normalized text;
\* otherwise, if the winning score is 0 and the winner has a non-empty
\* summary, the summary reply is returned; otherwise the snippet reply naming
\* the winner.
C28_GeneralBranchReplies ==
    GeneralBranch =>
        /\ call.result = NoUsableText <=> Leaders = {}
        /\ Leaders # {} =>
              LET winner == call.sources[FirstLeader]
              IN  IF Overlap(winner.text) = 0 /\ winner.summary # ""
                  THEN call.result =
                           Text("summary", winner.name, <<winner.summary>>, << >>)
                  ELSE /\ call.result.kind = "snippet"
                       /\ call.result.name = winner.name
                       /\ call.result.words # << >>

\* A question none of whose words is in any text got the summary of the first
\* candidate that has a text, the candidate before it having none.
C28_Witness ==
    /\ GeneralBranch
    /\ Len(call.sources) = 3
    /\ call.sources[1].text = << >>
    /\ Leaders # {}
    /\ FirstLeader = 2
    /\ Overlap(call.sources[2].text) = 0
    /\ call.sources[3].summary = ""
    /\ call.result.kind = "summary"
    /\ call.result.name = call.sources[2].name

\* ---------------------------------------------------------------------------
\* The hostnames of UrlHosts, as parsed, that the listed rules call private:
\* localhost, 0.0.0.0, *.local, 127.*, 10.*, 192.168.*, 172.16-172.31.*.
ListedPrivateHosts ==
    { <<"localhost">>, <<"printer", "local">>, <<"0", "0", "0", "0">>,
      <<"127", "0", "0", "1">>, <<"10", "0", "0", "5">>,
      <<"192", "168", "1", "1">>, <<"172", "16", "0", "1">>,
      <<"172", "20", "0", "1">>, <<"172", "31", "0", "1">> }

\* The request names a URL the route must refuse.
MustRefuse ==
    /\ urlExtract.pc # "idle"
    /\ urlExtract.url.kind = "url"
    /\ \/ urlExtract.url.protocol \notin {"http:", "https:"}
       \/ Hostname(urlExtract.url) \in ListedPrivateHosts

\* C25: for every URL whose scheme is not http/https or whose hostname is
\* private, loopback or link-local by the listed rules, the URL extraction
\* service answers with an error, and no network fetch is issued at any
\* point of handling the request.
C25_PrivateUrlNeverFetched ==
    MustRefuse =>
        /\ urlExtract.pc = "done"
        /\ urlExtract.response.status >= 400
        /\ urlExtract.response.error # ""
        /\ urlExtract.fetches = {}

\* The request for http://10.0.0.5/ has been answered.
C25_Witness ==
    /\ MustRefuse
    /\ urlExtract.url.protocol = "http:"
    /\ urlExtract.url.host = <<"10", "0", "0", "5">>
    /\ urlExtract.pc = "done"
    /\ urlExtract.response.error = "private host is not allowed"

\* ---------------------------------------------------------------------------
\* No two whitespace characters in a row, and no whitespace between two CJK
\* characters.
NoWhitespaceRun(text) ==
    \A i \in 1..(Len(text) - 1) : ~(IsSpace(text[i]) /\ IsSpace(text[i + 1]))
NoSpaceInsideCJK(text) ==
    \A i \in 2..(Len(text) - 1) :
        IsSpace(text[i]) => ~(IsCJK(text[i - 1]) /\ IsCJK(text[i + 1]))

\* C26: the text normalizer is idempotent, normalize(normalize(x)) =
\* normalize(x) for every x, and its result contains no run of two or more
\* whitespace characters and no whitespace between two adjacent CJK
\* characters.
C26_NormalizeIdempotent ==
    call.fn \in Normalizers =>
        /\ call.applied >= 1 =>
              /\ NoWhitespaceRun(call.once)
              /\ NoSpaceInsideCJK(call.once)
        /\ call.applied = 2 => call.twice = call.once

\* A text with an ideographic space between two CJK characters and a line
\* feed at its end has been normalized twice.
C26_Witness ==
    /\ call.fn \in Normalizers
    /\ call.applied = 2
    /\ call.value = <<"k", "w", "h", "n">>
    /\ call.once = <<"k", "k">>
    /\ call.twice = call.once

\* ---------------------------------------------------------------------------
\* The runs that committed, and the one that committed last.
Committed == { r \in DOMAIN bootstrap : bootstrap[r].pc = "done" }
LastCommitted ==
    CHOOSE r \in Committed :
        \A q \in Committed : bootstrap[q].committedAt <= bootstrap[r].committedAt

\* Every committed run had the same org id and owner uid.
SameIds ==
    \A q, r \in Committed :
        /\ bootstrap[q].args.orgId = bootstrap[r].args.orgId
        /\ bootstrap[q].args.ownerUid = bootstrap[r].args.ownerUid

\* C27: the organization bootstrap is idempotent and atomic.  Running it
\* twice with the same org id and owner uid leaves exactly one Organization
\* document and one owner Member document, with the field values a single
\* run leaves (that of the last command line, at the time it committed);
\* and no run leaves the Organization document written without the Member
\* document or the reverse.
C27_BootstrapIdempotentAtomic ==
    /\ \A r \in DOMAIN bootstrap :
           LET args == bootstrap[r].args
           IN  /\ bootstrap[r].pc = "done" =>
                     /\ \E d \in organizations : d.path = args.orgId
                     /\ \E d \in members : d.path = <<args.orgId, args.ownerUid>>
    /\ (organizations = {}) <=> (members = {})
    /\ (organizations # {}) <=> (Committed # {})
    /\ (Committed # {} /\ SameIds) =>
           LET args == bootstrap[LastCommitted].args
               now == bootstrap[LastCommitted].committedAt
           IN  /\ organizations =
                      {[path |-> args.orgId,
                        data |-> [name |-> IF args.orgName = "" THEN args.orgId
                                           ELSE args.orgName,
                                  ownerId |-> args.ownerUid,
                                  seatLimit |-> IF args.seatLimit = "" THEN 10
                                                ELSE 5,
                                  createdAt |-> now, updatedAt |-> now]]}
               /\ members =
                      {[path |-> <<args.orgId, args.ownerUid>>,
                        data |-> [uid |-> args.ownerUid,
                                  email |-> args.ownerEmail,
                                  displayName |-> args.ownerName,
                                  role |-> "owner",
                                  createdAt |-> now, updatedAt |-> now]]}

\* The utility has run twice with the same command line, and both runs
\* committed.
C27_Witness ==
    /\ Len(bootstrap) = 2
    /\ bootstrap[1].args = bootstrap[2].args
    /\ bootstrap[1].pc = "done"
    /\ bootstrap[2].pc = "done"
    /\ Cardinality(organizations) = 1
    /\ Cardinality(members) = 1

\* --- C29
\* The Source records whose storage path names no blob of the blob store.
DanglingSources == { d \in documents : d.storagePath # Null /\ d.storagePath \notin storage }

\* C29: once the uploads, inheritances and deletes have run to their end
\* (no handler is in flight), every Source record with a storage path, in
\* the personal collection or in a team thread, refers to a blob that is in
\* the blob store.
C29_StoragePathsResolve == Quiet => DanglingSources = {}

\* --- C30
\* The threads of the scope ac, by id.
ThreadsOfScope(ac) ==
    { chats[i].id : i \in { j \in DOMAIN chats :
                              /\ chats[j].scopeType = ac.type
                              /\ chats[j].teamId = ac.teamId } }

\* C30: in every reachable state the selected thread id, when not null, is
\* the id of a thread of the active scope: a personal thread when the scope
\* is personal, a thread of the active team when the scope is a team.
C30_SelectedThreadInActiveScope ==
    selectedChatId # Null => selectedChatId \in ThreadsOfScope(activeChat)

\* --- C31
\* The thread with the given id.
ThreadOf(id) == CHOOSE c \in Range(chats) : c.id = id

\* The writer of slot s adds its Source in this step / its summary message.
WritesSource(s) == writers[s].pc = "source" /\ writers'[s].pc = "message"
WritesSummary(s) == writers[s].pc = "message" /\ writers'[s].pc = "update"

\* C31: the writes of an ingestion are scope-consistent: a Source added to a
\* thread's documents goes to a team thread of the team the handler ran
\* for, and the summary message of a Source added to the personal
\* collection goes to a personal thread.
C31_IngestionWritesInScope ==
    [][\A s \in Slots :
          LET w == writers[s]
          IN  /\ (WritesSource(s) /\ w.activeChat.type = "team") =>
                     /\ ThreadOf(w.activeId).scopeType = "team"
                     /\ ThreadOf(w.activeId).teamId = w.activeChat.teamId
              /\ (WritesSummary(s) /\ w.activeChat.type = "personal") =>
                     ThreadOf(w.activeId).scopeType = "personal"]_vars

\* --- C32
\* The write actions whose thread creation (the addDoc of
\* createNewChatThread) is pending, for the scope ac.
CreationsPending(ac) ==
    { s \in Slots : writers[s].pc = "ensure" /\ writers[s].activeChat = ac }

\* C32: write actions started while no thread is selected share one thread
\* creation: no second creation is started for a scope while one is
\* pending, so that one thread is created and every action writes to it.
C32_OneThreadForPendingWrites ==
    \A t \in TeamIds \cup {Null} :
        LET ac == IF t = Null THEN Personal ELSE Team(t)
        IN  Cardinality(CreationsPending(ac)) <= 1

\* --- C33
\* The ask of slot s has written its user message and has not completed.
AskAwaitsCompletion(s) ==
    writers[s].kind = "ask" /\ writers[s].pc \in {"api", "assistant", "update", "notice"}

\* The ask of slot s is submitted in this step.
AskSubmitted(s) == writers[s].kind # "ask" /\ writers'[s].kind = "ask"

\* C33 as stated: between the write of the user message of an ask and the
\* completion of that ask no other ask writes a user message.
C33_OneAskInFlight ==
    [][\A s \in Slots :
          (writers[s].pc = "user" /\ writers'[s].pc = "api") =>
              ~\E t \in Slots \ {s} : AskAwaitsCompletion(t)]_vars

\* C33, amended: the sending flag is the only guard of an ask.  A question
\* is accepted only while the flag is false, and an ask that finds its
\* thread selected sets the flag in the step it is submitted in; asks in
\* flight do not hold a question back by themselves.
C33_AsksGuardedBySending ==
    [][\A s \in Slots :
          AskSubmitted(s) =>
              /\ ~sending
              /\ writers'[s].pc = "user" => sending']_vars

\* Two asks have written their user messages and neither has completed.
C33_Witness ==
    \E s, t \in Slots : s # t /\ AskAwaitsCompletion(s) /\ AskAwaitsCompletion(t)

\* --- C34
\* createTeamChatWithInheritance returns in this step.
TeamCreateEnds == teamCreate.pc # "idle" /\ teamCreate'.pc = "idle"

\* The thread createTeamChatWithInheritance has created or creates in this
\* step, when it returns an id.
TeamCreateId == IF teamCreate.pc = "create" THEN NewChatId ELSE teamCreate.created

\* C34: createTeamChatWithInheritance is all-or-nothing.  When it returns
\* an id, that thread is stored and selected and holds one copy of every
\* selected Source; when it returns null, it has stored no thread and no
\* copy.
C34_TeamCreateAllOrNothing ==
    [][TeamCreateEnds =>
          IF <<chats, documents>>' # <<chats, documents>>
          THEN /\ selectedChatId' = TeamCreateId
               /\ \E i \in DOMAIN chats' : chats'[i].id = TeamCreateId
               /\ \A k \in DOMAIN teamCreate.inheritTargets :
                      Cardinality({ d \in documents' :
                          /\ d.coll = TeamCreateId
                          /\ d.inheritedFromDocumentId =
                                 teamCreate.inheritTargets[k].id }) = 1
          ELSE /\ teamCreate.created = Null
               /\ ~\E d \in documents : d.coll = NewChatId]_vars

\* --- C35
\* The thread whose creation succeeds in this step (createNewChatThread
\* resolves, or createTeamChatWithInheritance returns an id), or Null.
CreatedNow ==
    IF \E s \in Slots : /\ writers[s].pc = "ensure"
                        /\ writers'[s].pc # "ensure"
                        /\ Len(chats') > Len(chats)
    THEN NewChatId
    ELSE IF TeamCreateEnds /\ <<chats, documents>>' # <<chats, documents>>
    THEN TeamCreateId
    ELSE Null

\* C35: when a thread creation succeeds the created thread is the selected
\* thread, and the deliveries of the threads snapshot keep it selected: a
\* delivery keeps a selection that is in the delivered list, and threads
\* are never removed, so the created thread has to be in the result of the
\* query the page listens to.
C35_CreatedThreadStaysSelected ==
    [][CreatedNow # Null =>
          /\ selectedChatId' = CreatedNow
          /\ chatsSub' # << >> =>
                 CreatedNow \in Range(ChatsQuery(chatsSub[1]))']_vars

\* --- C36
\* When a thread was last touched, as far as its record says.
LastTouched(d) == IF d.updatedAt # Null THEN d.updatedAt ELSE d.createdAt

\* C36: a delivery of the threads snapshot keeps the selected thread when
\* the snapshot holds it; otherwise it selects a thread of the snapshot
\* that no other thread of the snapshot was touched after (updatedAt, else
\* createdAt), or nothing when the snapshot is empty.
C36_SnapshotSelection ==
    (call.fn = "chatsSnapshot" /\ call.done) =>
        LET docs == call.docs
        IN  IF call.prev # Null /\ call.prev \in DOMAIN docs
            THEN call.selected = call.prev
            ELSE IF docs = << >> THEN call.selected = Null
            ELSE /\ call.selected \in DOMAIN docs
                 /\ \A j \in DOMAIN docs :
                        LastTouched(docs[j]) <= LastTouched(docs[call.selected])

\* The selected thread is not in the snapshot, and the callback has selected
\* a thread without updatedAt whose createdAt is later than the updatedAt of
\* the other thread.
C36_Witness ==
    /\ call.fn = "chatsSnapshot"
    /\ call.done
    /\ call.prev = 3
    /\ call.docs = <<[updatedAt |-> 1, createdAt |-> 1],
                     [updatedAt |-> Null, createdAt |-> 2]>>
    /\ call.selected = 2

\* --- C37
\* C37: under every interleaving of signups the seats used of a company do
\* not exceed its seat limit, and a signup that is refused because no seat
\* is left changes no company and creates no user profile.
C37_SeatsWithinLimit ==
    [][/\ \A c \in companies' : c.seatsUsed <= SeatLimitOf(c)
       /\ \A i \in DOMAIN signups :
              (signups[i].pc # "refused" /\ signups'[i].pc = "refused") =>
                  /\ companies' = companies
                  /\ profiles' = profiles
       /\ \A i \in DOMAIN signups :
              signups[i].pc = "refused" =>
                  /\ signups'[i] = signups[i]
                  /\ ~\E p \in profiles : p.uid = i]_vars

\* No candidate has a stored plan and no candidate's text has a price-shaped
\* substring.
NothingPriced == ~SomeStoredPlan /\ ~SomePriceInText

\* C38: in the local fallback a price-intent question for which no candidate
\* has a stored plan and no text contains a price-shaped substring gets no
\* price block: the reply is the one of the general token-overlap branch
\* (the no-usable-text reply when no candidate has text, else the summary or
\* the snippet of the first candidate with the highest overlap).
C38_PriceQuestionFallsThrough ==
    (ReplyDone /\ AsksForPrice /\ NothingPriced) =>
        /\ call.result.kind \notin {"price", "upload-first"}
        /\ call.result = NoUsableText <=> Leaders = {}
        /\ Leaders # {} =>
              LET winner == call.sources[FirstLeader]
              IN  IF Overlap(winner.text) = 0 /\ winner.summary # ""
                  THEN call.result =
                           Text("summary", winner.name, <<winner.summary>>, << >>)
                  ELSE /\ call.result.kind = "snippet"
                       /\ call.result.name = winner.name
                       /\ call.result.words # << >>

\* A price question over candidates without plans or prices has been
\* answered with the snippet of the second candidate, whose text shares a
\* word with the question.
C38_Witness ==
    /\ ReplyDone /\ AsksForPrice /\ NothingPriced
    /\ Len(call.sources) >= 2
    /\ call.sources[1].text = << >>
    /\ Overlap(call.sources[2].text) > 0
    /\ call.result.kind = "snippet"
    /\ call.result.name = call.sources[2].name

====
